---------------------------- MODULE Spec2Model ----------------------------
(***************************************************************************)
(* Model of the DeFiAgentFHE contract (src/frontend/web/src/app.tsx,       *)
(* lines 869-1132): roles, pause switch, cooldowns, batch lifecycle,       *)
(* encrypted submission and aggregation, decryption request and callback.  *)
(*                                                                         *)
(* The EVM runs one call at a time and a reverting call rolls back every   *)
(* write it made, so each external function is one atomic action: it       *)
(* either commits all of its writes or leaves the contract state as it     *)
(* was.  lastCall records the outcome of the most recent call.             *)
(*                                                                         *)
(* The FHE library (@fhevm/solidity) is outside the repository.  It is     *)
(* modelled at its interface: a handle is an opaque identifier (0 means    *)
(* "not initialized"), every FHE operation returns a fresh handle, and     *)
(* the plaintext behind a handle is carried next to the identifier so      *)
(* that the oracle's decryption can be computed.                           *)
(***************************************************************************)
EXTENDS Integers, Sequences, FiniteSets, TLC

(***************************************************************************)
(* Bounds of the model.                                                    *)
(***************************************************************************)
MaxCalls == 3
MaxTime == 60

TimeSteps == {60}

Addresses == {"a1", "a2"}
Deployer == "a1"
Oracle == "oracle"
\* myCallback is public: the oracle and any other account may call it.
CallbackCallers == {Oracle, "a2"}
This == "DeFiAgentFHE"

BatchIds == 0..(MaxCalls + 2)
RequestIds == 0..(MaxCalls + 1)

(***************************************************************************)
(* uint256 values.  The only uint256 values the model needs are small      *)
(* ones (timestamps, batch ids) and values close to 2^256, which the       *)
(* owner may pass to setCooldownSeconds.  A non-negative integer n stands  *)
(* for n and a negative integer -k stands for 2^256 - k, so MaxUint256 is  *)
(* -1.  Solidity 0.8 addition is checked: it panics on overflow.           *)
(***************************************************************************)
MaxUint256 == 0 - 1

U256Lt(a, b) ==
    IF (a >= 0) = (b >= 0) THEN a < b ELSE a >= 0

U256AddOverflows(a, b) ==
    \/ a < 0 /\ b < 0
    \/ a < 0 /\ b >= 0 /\ a + b >= 0
    \/ a >= 0 /\ b < 0 /\ a + b >= 0

U256Add(a, b) == a + b

(***************************************************************************)
(* euint32 plaintexts: 32-bit unsigned integers, kept as two 16-bit limbs  *)
(* <<high, low>> because 2^32 is outside TLC's integer range.              *)
(***************************************************************************)
Limb == 65536

U32(n) == <<(n \div Limb) % Limb, n % Limb>>

Add32(a, b) ==
    LET lo == a[2] + b[2]
        hi == a[1] + b[1] + (lo \div Limb)
    IN  <<hi % Limb, lo % Limb>>

Sub32(a, b) ==
    LET lo == a[2] - b[2]
        borrow == IF lo < 0 THEN 1 ELSE 0
        hi == a[1] - b[1] - borrow
    IN  <<hi % Limb, lo % Limb>>

(***************************************************************************)
(* Ciphertext handles.                                                     *)
(***************************************************************************)
Handle(i, v) == [id |-> i, val |-> v]

Uninitialized == Handle(0, U32(0))

FHE_isInitialized(h) == h.id # 0

\* FHE.add / FHE.sub treat an uninitialized operand as an encryption of 0.
Plain(h) == IF FHE_isInitialized(h) THEN h.val ELSE U32(0)

FHE_asEuint32(i, n) == Handle(i, U32(n))

FHE_add(i, a, b) == Handle(i, Add32(Plain(a), Plain(b)))

FHE_sub(i, a, b) == Handle(i, Sub32(Plain(a), Plain(b)))

FHE_toBytes32(h) == h.id

(***************************************************************************)
(* keccak256(abi.encode(cts, address(this))): collision-free, so the hash  *)
(* is the pair it was computed from.  bytes32(0) is the default value of   *)
(* a stateHash that was never written.                                     *)
(***************************************************************************)
ZeroHash == [cts |-> <<>>, addr |-> "0x0"]

_hashCiphertexts(cts) == [cts |-> cts, addr |-> This]

\* The four accumulators of a batch in the order they are handed to the oracle.
Ciphertexts(results) ==
    << results.totalValueSumEncrypted,
       results.riskPreferenceSumEncrypted,
       results.rebalanceAmount1Encrypted,
       results.rebalanceAmount2Encrypted >>

ToCts(handles) == [i \in 1..Len(handles) |-> FHE_toBytes32(handles[i])]

EmptyResults ==
    [ totalValueSumEncrypted     |-> Uninitialized,
      riskPreferenceSumEncrypted |-> Uninitialized,
      rebalanceAmount1Encrypted  |-> Uninitialized,
      rebalanceAmount2Encrypted  |-> Uninitialized ]

EmptyUserState ==
    [ totalValueEncrypted         |-> Uninitialized,
      riskPreferenceEncrypted     |-> Uninitialized,
      targetAllocation1Encrypted  |-> Uninitialized,
      targetAllocation2Encrypted  |-> Uninitialized,
      currentAllocation1Encrypted |-> Uninitialized,
      currentAllocation2Encrypted |-> Uninitialized ]

EmptyContext == [batchId |-> 0, stateHash |-> ZeroHash, processed |-> FALSE]

(***************************************************************************)
(* Inputs of submitPortfolioData: six ciphertext handles created by the    *)
(* caller.  Input handles are numbered from 1000, apart from the handles   *)
(* the contract's own FHE operations create.                               *)
(***************************************************************************)
Submission(k, total, risk, t1, t2, c1, c2) ==
    [ totalValueEncrypted         |-> Handle(1000 + 10 * k + 1, total),
      riskPreferenceEncrypted     |-> Handle(1000 + 10 * k + 2, risk),
      targetAllocation1Encrypted  |-> Handle(1000 + 10 * k + 3, t1),
      targetAllocation2Encrypted  |-> Handle(1000 + 10 * k + 4, t2),
      currentAllocation1Encrypted |-> Handle(1000 + 10 * k + 5, c1),
      currentAllocation2Encrypted |-> Handle(1000 + 10 * k + 6, c2) ]

\* (total, risk, target1, target2, current1, current2) = (100, 3, 50, 50, 40, 60)
ScenarioSubmission == Submission(1, U32(100), U32(3), U32(50), U32(50), U32(40), U32(60))

Submissions ==
    { ScenarioSubmission,
      Submission(2, <<65535, 65535>>, U32(5), U32(0), U32(70), U32(1), U32(20)) }

(***************************************************************************)
(* State.                                                                  *)
(***************************************************************************)
VARIABLES
    owner,                      \* address public owner
    providers,                  \* mapping(address => bool)
    paused,                     \* bool public paused
    cooldownSeconds,            \* uint256 public cooldownSeconds
    lastSubmissionTime,         \* mapping(address => uint256)
    lastDecryptionRequestTime,  \* mapping(address => uint256)
    currentBatchId,             \* uint256 public currentBatchId
    batchClosed,                \* mapping(uint256 => bool)
    decryptionContexts,         \* mapping(uint256 => DecryptionContext)
    userStates,                 \* mapping(address => UserPortfolioState)
    batchResults,               \* mapping(uint256 => BatchAggregatedResults)
    now,                        \* block.timestamp
    requestCounter,             \* the oracle's next request id
    oracleRequests,             \* the handles the oracle was asked to decrypt
    submitted,                  \* number of PortfolioDataSubmitted events
    accepted,                   \* per batch, the inputs of its accepted submissions
    requestedEvents,            \* DecryptionRequested events
    completions,                \* DecryptionCompleted events, per request id
    adminCalls,                 \* number of successful administration calls
    failedVerification,         \* request ids whose callback failed a verification
    lastCall,                   \* the most recent call and its outcome
    kvKeys,                     \* dashboard store: the bytes stored under "portfolio_keys"
    kvRecords,                  \* dashboard store: the ids with a "portfolio_<id>" record
    runPc,                      \* position of each submitPortfolio run
    runKeys,                    \* each run's local variable keys
    dashboardList               \* the portfolios each run's loadPortfolios displayed

contractVars ==
    << owner, providers, paused, cooldownSeconds, lastSubmissionTime,
       lastDecryptionRequestTime, currentBatchId, batchClosed,
       decryptionContexts, userStates, batchResults >>

envVars ==
    << requestCounter, oracleRequests, submitted, accepted, requestedEvents, completions,
       adminCalls >>

dashVars == << kvKeys, kvRecords, runPc, runKeys, dashboardList >>

vars == << contractVars, envVars, now, failedVerification, lastCall, dashVars >>

\* The submitPortfolio runs of the dashboard; each run's portfolio id is
\* unique (a timestamp and a random suffix), so the run's name stands for it.
Runs == {"r1", "r2", "r3"}

\* The dashboard has stored nothing and no run has started.
DashboardInit ==
    /\ kvKeys = <<>>
    /\ kvRecords = {}
    /\ runPc = [r \in Runs |-> "idle"]
    /\ runKeys = [r \in Runs |-> <<>>]
    /\ dashboardList = [r \in Runs |-> <<>>]

Call(op, caller, err, arg) == [op |-> op, caller |-> caller, err |-> err, arg |-> arg]

\* The calls so far that opened a batch, accepted a submission, issued a
\* decryption request or changed a setting.  The model makes at most
\* MaxCalls of them.
CallsMade == (currentBatchId - 1) + submitted + (requestCounter - 1) + adminCalls

WithinBounds == CallsMade < MaxCalls

\* A call that reverts: every state write is rolled back, no event is emitted.
Reverts(op, caller, err, arg) ==
    /\ lastCall' = Call(op, caller, err, arg)
    /\ UNCHANGED dashVars
    /\ failedVerification' =
          IF op = "myCallback" /\ err \in {"StateMismatch", "InvalidProof"}
          THEN failedVerification \cup {arg} ELSE failedVerification
    /\ UNCHANGED << contractVars, envVars, now >>

\* Mutant of Init: the constructor does not register the deployer as a provider.
Init_NoProvider ==
    /\ owner = Deployer
    /\ providers = [a \in Addresses |-> FALSE]
    /\ paused = FALSE
    /\ cooldownSeconds = 60
    /\ lastSubmissionTime = [a \in Addresses |-> 0]
    /\ lastDecryptionRequestTime = [a \in Addresses |-> 0]
    /\ currentBatchId = 1
    /\ batchClosed = [b \in BatchIds |-> FALSE]
    /\ decryptionContexts = [q \in RequestIds |-> EmptyContext]
    /\ userStates = [a \in Addresses |-> EmptyUserState]
    /\ batchResults = [b \in BatchIds |-> EmptyResults]
    /\ now = 0
    /\ requestCounter = 1
    /\ oracleRequests = [q \in RequestIds |-> <<>>]
    /\ submitted = 0
    /\ accepted = [b \in BatchIds |-> <<>>]
    /\ requestedEvents = {}
    /\ completions = [q \in RequestIds |-> <<>>]
    /\ adminCalls = 0
    /\ failedVerification = {}
    /\ lastCall = Call("constructor", Deployer, "ok", 0)
    /\ DashboardInit

Init ==
    /\ owner = Deployer
    /\ providers = [a \in Addresses |-> a = Deployer]
    /\ paused = FALSE
    /\ cooldownSeconds = 60
    /\ lastSubmissionTime = [a \in Addresses |-> 0]
    /\ lastDecryptionRequestTime = [a \in Addresses |-> 0]
    /\ currentBatchId = 1
    /\ batchClosed = [b \in BatchIds |-> FALSE]
    /\ decryptionContexts = [q \in RequestIds |-> EmptyContext]
    /\ userStates = [a \in Addresses |-> EmptyUserState]
    /\ batchResults = [b \in BatchIds |-> EmptyResults]
    /\ now = 0
    /\ requestCounter = 1
    /\ oracleRequests = [q \in RequestIds |-> <<>>]
    /\ submitted = 0
    /\ accepted = [b \in BatchIds |-> <<>>]
    /\ requestedEvents = {}
    /\ completions = [q \in RequestIds |-> <<>>]
    /\ adminCalls = 0
    /\ failedVerification = {}
    /\ lastCall = Call("constructor", Deployer, "ok", 0)
    /\ DashboardInit

(***************************************************************************)
(* Modifiers.  Each yields the error it reverts with, or "ok".             *)
(***************************************************************************)
\* Mutant of onlyOwner: the caller is not checked.
onlyOwner_Skipped(caller) == "ok"

onlyOwner(caller) == IF caller # owner THEN "NotOwner" ELSE "ok"

\* Mutant of onlyProvider: the caller is not checked.
onlyProvider_Skipped(caller) == "ok"

onlyProvider(caller) == IF ~providers[caller] THEN "NotProvider" ELSE "ok"

\* Mutant of whenNotPaused: the pause switch is not checked.
whenNotPaused_Skipped == "ok"

whenNotPaused == IF paused THEN "Paused" ELSE "ok"

\* The first error of a list of checks, in the order the code applies them.
RECURSIVE FirstError(_)
FirstError(checks) ==
    IF checks = <<>> THEN "ok"
    ELSE IF Head(checks) # "ok" THEN Head(checks)
    ELSE FirstError(Tail(checks))

\* if (block.timestamp < last + cooldownSeconds) revert CooldownActive();
\* Mutant of CooldownCheck: the comparison is not strict.
CooldownCheck_NonStrict(last) ==
    IF U256AddOverflows(last, cooldownSeconds) THEN "Panic"
    ELSE IF ~U256Lt(U256Add(last, cooldownSeconds), now) THEN "CooldownActive"
    ELSE "ok"

CooldownCheck(last) ==
    IF U256AddOverflows(last, cooldownSeconds) THEN "Panic"
    ELSE IF U256Lt(now, U256Add(last, cooldownSeconds)) THEN "CooldownActive"
    ELSE "ok"

(***************************************************************************)
(* Administration.                                                         *)
(***************************************************************************)
CooldownValues == {0, 60, MaxUint256}

\* Mutant of transferOwnership: the new owner is registered as a provider.
transferOwnership_GrantsProvider(caller, newOwner) ==
    LET err == onlyOwner(caller) IN
    IF err # "ok" THEN Reverts("transferOwnership", caller, err, 0)
    ELSE /\ owner' = newOwner
         /\ providers' = [providers EXCEPT ![newOwner] = TRUE]
         /\ adminCalls' = adminCalls + 1
         /\ lastCall' = Call("transferOwnership", caller, "ok", 0)
         /\ UNCHANGED dashVars
         /\ UNCHANGED << paused, cooldownSeconds, lastSubmissionTime,
                         lastDecryptionRequestTime, currentBatchId, batchClosed,
                         decryptionContexts, userStates, batchResults,
                         requestCounter, oracleRequests, submitted, accepted, requestedEvents,
                         completions, now, failedVerification >>
         /\ WithinBounds

transferOwnership(caller, newOwner) ==
    LET err == onlyOwner(caller) IN
    IF err # "ok" THEN Reverts("transferOwnership", caller, err, 0)
    ELSE /\ owner' = newOwner
         /\ adminCalls' = adminCalls + 1
         /\ lastCall' = Call("transferOwnership", caller, "ok", 0)
         /\ UNCHANGED dashVars
         /\ UNCHANGED << providers, paused, cooldownSeconds, lastSubmissionTime,
                         lastDecryptionRequestTime, currentBatchId, batchClosed,
                         decryptionContexts, userStates, batchResults,
                         requestCounter, oracleRequests, submitted, accepted, requestedEvents,
                         completions, now, failedVerification >>
         /\ WithinBounds

addProvider(caller, provider) ==
    LET err == onlyOwner(caller) IN
    IF err # "ok" THEN Reverts("addProvider", caller, err, 0)
    ELSE /\ providers' = [providers EXCEPT ![provider] = TRUE]
         /\ adminCalls' = adminCalls + 1
         /\ lastCall' = Call("addProvider", caller, "ok", 0)
         /\ UNCHANGED dashVars
         /\ UNCHANGED << owner, paused, cooldownSeconds, lastSubmissionTime,
                         lastDecryptionRequestTime, currentBatchId, batchClosed,
                         decryptionContexts, userStates, batchResults,
                         requestCounter, oracleRequests, submitted, accepted, requestedEvents,
                         completions, now, failedVerification >>
         /\ WithinBounds

\* Mutant of removeProvider: the removed provider's snapshot is deleted too.
removeProvider_ClearsState(caller, provider) ==
    LET err == onlyOwner(caller) IN
    IF err # "ok" THEN Reverts("removeProvider", caller, err, 0)
    ELSE /\ providers' = [providers EXCEPT ![provider] = FALSE]
         /\ userStates' = [userStates EXCEPT ![provider] = EmptyUserState]
         /\ adminCalls' = adminCalls + 1
         /\ lastCall' = Call("removeProvider", caller, "ok", 0)
         /\ UNCHANGED dashVars
         /\ UNCHANGED << owner, paused, cooldownSeconds, lastSubmissionTime,
                         lastDecryptionRequestTime, currentBatchId, batchClosed,
                         decryptionContexts, batchResults,
                         requestCounter, oracleRequests, submitted, accepted, requestedEvents,
                         completions, now, failedVerification >>
         /\ WithinBounds

removeProvider(caller, provider) ==
    LET err == onlyOwner(caller) IN
    IF err # "ok" THEN Reverts("removeProvider", caller, err, 0)
    ELSE /\ providers' = [providers EXCEPT ![provider] = FALSE]
         /\ adminCalls' = adminCalls + 1
         /\ lastCall' = Call("removeProvider", caller, "ok", 0)
         /\ UNCHANGED dashVars
         /\ UNCHANGED << owner, paused, cooldownSeconds, lastSubmissionTime,
                         lastDecryptionRequestTime, currentBatchId, batchClosed,
                         decryptionContexts, userStates, batchResults,
                         requestCounter, oracleRequests, submitted, accepted, requestedEvents,
                         completions, now, failedVerification >>
         /\ WithinBounds

setPaused(caller, _paused) ==
    LET err == onlyOwner(caller) IN
    IF err # "ok" THEN Reverts("setPaused", caller, err, 0)
    ELSE /\ paused' = (IF _paused THEN TRUE ELSE FALSE)
         /\ adminCalls' = adminCalls + 1
         /\ lastCall' = Call("setPaused", caller, "ok", 0)
         /\ UNCHANGED dashVars
         /\ UNCHANGED << owner, providers, cooldownSeconds, lastSubmissionTime,
                         lastDecryptionRequestTime, currentBatchId, batchClosed,
                         decryptionContexts, userStates, batchResults,
                         requestCounter, oracleRequests, submitted, accepted, requestedEvents,
                         completions, now, failedVerification >>
         /\ WithinBounds

setCooldownSeconds(caller, newCooldownSeconds) ==
    LET err == onlyOwner(caller) IN
    IF err # "ok" THEN Reverts("setCooldownSeconds", caller, err, 0)
    ELSE /\ cooldownSeconds' = newCooldownSeconds
         /\ adminCalls' = adminCalls + 1
         /\ lastCall' = Call("setCooldownSeconds", caller, "ok", 0)
         /\ UNCHANGED dashVars
         /\ UNCHANGED << owner, providers, paused, lastSubmissionTime,
                         lastDecryptionRequestTime, currentBatchId, batchClosed,
                         decryptionContexts, userStates, batchResults,
                         requestCounter, oracleRequests, submitted, accepted, requestedEvents,
                         completions, now, failedVerification >>
         /\ WithinBounds

(***************************************************************************)
(* Batch lifecycle.                                                        *)
(***************************************************************************)
OpenNewBatchError(caller) == FirstError(<< onlyOwner(caller), whenNotPaused >>)

\* Mutant of openNewBatch: the batch id advances by two.
openNewBatch_ByTwo(caller) ==
    LET err == OpenNewBatchError(caller) IN
    IF err # "ok" THEN Reverts("openNewBatch", caller, err, 0)
    ELSE /\ currentBatchId' = currentBatchId + 2
         /\ lastCall' = Call("openNewBatch", caller, "ok", currentBatchId + 2)
         /\ UNCHANGED dashVars
         /\ UNCHANGED << owner, providers, paused, cooldownSeconds, lastSubmissionTime,
                         lastDecryptionRequestTime, batchClosed,
                         decryptionContexts, userStates, batchResults, envVars, now, failedVerification >>
         /\ WithinBounds

\* currentBatchId++ 
openNewBatch(caller) ==
    LET err == OpenNewBatchError(caller) IN
    IF err # "ok" THEN Reverts("openNewBatch", caller, err, 0)
    ELSE /\ currentBatchId' = currentBatchId + 1
         /\ lastCall' = Call("openNewBatch", caller, "ok", currentBatchId + 1)
         /\ UNCHANGED dashVars
         /\ UNCHANGED << owner, providers, paused, cooldownSeconds, lastSubmissionTime,
                         lastDecryptionRequestTime, batchClosed,
                         decryptionContexts, userStates, batchResults, envVars, now, failedVerification >>
         /\ WithinBounds

\* Mutant of CloseCurrentBatchError: a batch that is already closed is not refused.
CloseCurrentBatchError_NoClosedCheck(caller) ==
    FirstError(<< onlyOwner(caller), whenNotPaused >>)

CloseCurrentBatchError(caller) ==
    FirstError(<< onlyOwner(caller),
                  whenNotPaused,
                  IF currentBatchId = 0 \/ batchClosed[currentBatchId]
                  THEN "BatchClosedOrInvalid" ELSE "ok" >>)

\* Mutant of closeCurrentBatch: the flag is flipped instead of set, with no
\* check that the batch is still open.
closeCurrentBatch_Toggles(caller) ==
    LET err == FirstError(<< onlyOwner(caller), whenNotPaused >>) IN
    IF err # "ok" THEN Reverts("closeCurrentBatch", caller, err, currentBatchId)
    ELSE /\ batchClosed' = [batchClosed EXCEPT ![currentBatchId] = ~@]
         /\ lastCall' = Call("closeCurrentBatch", caller, "ok", currentBatchId)
         /\ UNCHANGED dashVars
         /\ UNCHANGED << owner, providers, paused, cooldownSeconds, lastSubmissionTime,
                         lastDecryptionRequestTime, currentBatchId,
                         decryptionContexts, userStates, batchResults, envVars, now,
                         failedVerification >>

\* Mutant of closeCurrentBatch: every batch up to the current one is closed.
closeCurrentBatch_ClosesEarlier(caller) ==
    LET err == CloseCurrentBatchError(caller) IN
    IF err # "ok" THEN Reverts("closeCurrentBatch", caller, err, currentBatchId)
    ELSE /\ batchClosed' = [b \in BatchIds |-> batchClosed[b] \/ (1 <= b /\ b <= currentBatchId)]
         /\ lastCall' = Call("closeCurrentBatch", caller, "ok", currentBatchId)
         /\ UNCHANGED dashVars
         /\ UNCHANGED << owner, providers, paused, cooldownSeconds, lastSubmissionTime,
                         lastDecryptionRequestTime, currentBatchId,
                         decryptionContexts, userStates, batchResults, envVars, now,
                         failedVerification >>

closeCurrentBatch(caller) ==
    LET err == CloseCurrentBatchError(caller) IN
    IF err # "ok" THEN Reverts("closeCurrentBatch", caller, err, currentBatchId)
    ELSE /\ batchClosed' = [batchClosed EXCEPT ![currentBatchId] = TRUE]
         /\ lastCall' = Call("closeCurrentBatch", caller, "ok", currentBatchId)
         /\ UNCHANGED dashVars
         /\ UNCHANGED << owner, providers, paused, cooldownSeconds, lastSubmissionTime,
                         lastDecryptionRequestTime, currentBatchId,
                         decryptionContexts, userStates, batchResults, envVars, now,
                         failedVerification >>

(***************************************************************************)
(* Submission and aggregation.                                             *)
(***************************************************************************)
\* Mutant of SubmitError: the check of line 1017 is missing.
SubmitError_NoClosedCheck(caller) ==
    FirstError(<< onlyProvider(caller),
                  whenNotPaused,
                  CooldownCheck(lastSubmissionTime[caller]) >>)

SubmitError(caller) ==
    FirstError(<< onlyProvider(caller),
                  whenNotPaused,
                  CooldownCheck(lastSubmissionTime[caller]),
                  IF batchClosed[currentBatchId] THEN "BatchClosedOrInvalid" ELSE "ok" >>)

\* Lines 1029-1036: the accumulators are seeded with encrypted zeros when the
\* batch has none yet.  base is the first free handle id of this call.
SeedResults(results, base) ==
    IF ~FHE_isInitialized(results.totalValueSumEncrypted)
    THEN [ totalValueSumEncrypted     |-> FHE_asEuint32(base + 1, 0),
           riskPreferenceSumEncrypted |-> FHE_asEuint32(base + 2, 0),
           rebalanceAmount1Encrypted  |-> FHE_asEuint32(base + 3, 0),
           rebalanceAmount2Encrypted  |-> FHE_asEuint32(base + 4, 0) ]
    ELSE results

\* Mutant of Aggregate: the differences are taken as current - target.
Aggregate_DiffReversed(results, s, base) ==
    LET diff1 == FHE_sub(base + 7, s.currentAllocation1Encrypted, s.targetAllocation1Encrypted)
        diff2 == FHE_sub(base + 8, s.currentAllocation2Encrypted, s.targetAllocation2Encrypted)
    IN  [ totalValueSumEncrypted     |->
              FHE_add(base + 5, results.totalValueSumEncrypted, s.totalValueEncrypted),
          riskPreferenceSumEncrypted |->
              FHE_add(base + 6, results.riskPreferenceSumEncrypted, s.riskPreferenceEncrypted),
          rebalanceAmount1Encrypted  |->
              FHE_add(base + 9, results.rebalanceAmount1Encrypted, diff1),
          rebalanceAmount2Encrypted  |->
              FHE_add(base + 10, results.rebalanceAmount2Encrypted, diff2) ]

\* Mutant of Aggregate: the value sum doubles the running sum before adding,
\* so the result depends on the order of the submissions.
Aggregate_OrderDependent(results, s, base) ==
    LET diff1 == FHE_sub(base + 7, s.targetAllocation1Encrypted, s.currentAllocation1Encrypted)
        diff2 == FHE_sub(base + 8, s.targetAllocation2Encrypted, s.currentAllocation2Encrypted)
        doubled == FHE_add(base + 5, results.totalValueSumEncrypted, results.totalValueSumEncrypted)
    IN  [ totalValueSumEncrypted     |-> FHE_add(base + 5, doubled, s.totalValueEncrypted),
          riskPreferenceSumEncrypted |->
              FHE_add(base + 6, results.riskPreferenceSumEncrypted, s.riskPreferenceEncrypted),
          rebalanceAmount1Encrypted  |->
              FHE_add(base + 9, results.rebalanceAmount1Encrypted, diff1),
          rebalanceAmount2Encrypted  |->
              FHE_add(base + 10, results.rebalanceAmount2Encrypted, diff2) ]

\* Lines 1038-1047: fold one submission into the accumulators.
Aggregate(results, s, base) ==
    LET diff1 == FHE_sub(base + 7, s.targetAllocation1Encrypted, s.currentAllocation1Encrypted)
        diff2 == FHE_sub(base + 8, s.targetAllocation2Encrypted, s.currentAllocation2Encrypted)
    IN  [ totalValueSumEncrypted     |->
              FHE_add(base + 5, results.totalValueSumEncrypted, s.totalValueEncrypted),
          riskPreferenceSumEncrypted |->
              FHE_add(base + 6, results.riskPreferenceSumEncrypted, s.riskPreferenceEncrypted),
          rebalanceAmount1Encrypted  |->
              FHE_add(base + 9, results.rebalanceAmount1Encrypted, diff1),
          rebalanceAmount2Encrypted  |->
              FHE_add(base + 10, results.rebalanceAmount2Encrypted, diff2) ]

\* Mutant of submitPortfolioData: the caller's snapshot is written only when
\* the caller has none yet.
submitPortfolioData_KeepsFirstSnapshot(caller, s) ==
    LET err == SubmitError(caller)
        base == 10 * submitted
    IN
    IF err # "ok" THEN Reverts("submitPortfolioData", caller, err, currentBatchId)
    ELSE /\ lastSubmissionTime' = [lastSubmissionTime EXCEPT ![caller] = now]
         /\ userStates' = [userStates EXCEPT ![caller] =
                              IF @ = EmptyUserState THEN s ELSE @]
         /\ batchResults' = [batchResults EXCEPT ![currentBatchId] =
                                Aggregate(SeedResults(@, base), s, base)]
         /\ submitted' = submitted + 1
         /\ accepted' = [accepted EXCEPT ![currentBatchId] = Append(@, s)]
         /\ lastCall' = Call("submitPortfolioData", caller, "ok", currentBatchId)
         /\ UNCHANGED dashVars
         /\ UNCHANGED << owner, providers, paused, cooldownSeconds,
                         lastDecryptionRequestTime, currentBatchId, batchClosed,
                         decryptionContexts, requestCounter, oracleRequests,
                         requestedEvents, completions, adminCalls, now, failedVerification >>
         /\ WithinBounds

submitPortfolioData(caller, s) ==
    LET err == SubmitError(caller)
        base == 10 * submitted
    IN
    IF err # "ok" THEN Reverts("submitPortfolioData", caller, err, currentBatchId)
    ELSE /\ lastSubmissionTime' = [lastSubmissionTime EXCEPT ![caller] = now]
         /\ userStates' = [userStates EXCEPT ![caller] = s]
         /\ batchResults' = [batchResults EXCEPT ![currentBatchId] =
                                Aggregate(SeedResults(@, base), s, base)]
         /\ submitted' = submitted + 1
         /\ accepted' = [accepted EXCEPT ![currentBatchId] = Append(@, s)]
         /\ lastCall' = Call("submitPortfolioData", caller, "ok", currentBatchId)
         /\ UNCHANGED dashVars
         /\ UNCHANGED << owner, providers, paused, cooldownSeconds,
                         lastDecryptionRequestTime, currentBatchId, batchClosed,
                         decryptionContexts, requestCounter, oracleRequests,
                         requestedEvents, completions, adminCalls, now, failedVerification >>
         /\ WithinBounds

(***************************************************************************)
(* Decryption request.                                                     *)
(***************************************************************************)
\* Mutant of _requireInitialized: it never reverts.
_requireInitialized_Skipped(cipher) == "ok"

_requireInitialized(cipher) ==
    IF ~FHE_isInitialized(cipher) THEN "NotInitialized" ELSE "ok"

\* Mutant of RequestError: the check of line 1053 is missing.
RequestError_NoClosedCheck(caller, batchId) ==
    FirstError(<< onlyOwner(caller),
                  whenNotPaused,
                  CooldownCheck(lastDecryptionRequestTime[caller]),
                  _requireInitialized(batchResults[batchId].totalValueSumEncrypted) >>)

\* Mutant of RequestError: the cooldown is checked against the caller's last
\* submission time.
RequestError_SharedCooldown(caller, batchId) ==
    FirstError(<< onlyOwner(caller),
                  whenNotPaused,
                  IF batchClosed[batchId] = FALSE THEN "BatchClosedOrInvalid" ELSE "ok",
                  CooldownCheck(lastSubmissionTime[caller]),
                  _requireInitialized(batchResults[batchId].totalValueSumEncrypted) >>)

RequestError(caller, batchId) ==
    FirstError(<< onlyOwner(caller),
                  whenNotPaused,
                  IF batchClosed[batchId] = FALSE THEN "BatchClosedOrInvalid" ELSE "ok",
                  CooldownCheck(lastDecryptionRequestTime[caller]),
                  _requireInitialized(batchResults[batchId].totalValueSumEncrypted) >>)

\* Mutant of requestBatchDecryption: a call that fails the initialization
\* check keeps the timestamp written on line 1058.
requestBatchDecryption_KeepsTimestamp(caller, batchId) ==
    LET err == RequestError(caller, batchId)
        handles == Ciphertexts(batchResults[batchId])
        stateHash == _hashCiphertexts(ToCts(handles))
        requestId == requestCounter
    IN
    IF err = "NotInitialized"
    THEN /\ lastDecryptionRequestTime' = [lastDecryptionRequestTime EXCEPT ![caller] = now]
         /\ lastCall' = Call("requestBatchDecryption", caller, err, batchId)
         /\ UNCHANGED dashVars
         /\ UNCHANGED << owner, providers, paused, cooldownSeconds, lastSubmissionTime,
                         currentBatchId, batchClosed, decryptionContexts, userStates,
                         batchResults, envVars, now, failedVerification >>
    ELSE IF err # "ok" THEN Reverts("requestBatchDecryption", caller, err, batchId)
    ELSE /\ lastDecryptionRequestTime' = [lastDecryptionRequestTime EXCEPT ![caller] = now]
         /\ requestCounter' = requestCounter + 1
         /\ oracleRequests' = [oracleRequests EXCEPT ![requestId] = handles]
         /\ decryptionContexts' = [decryptionContexts EXCEPT ![requestId] =
                [batchId |-> batchId, stateHash |-> stateHash, processed |-> FALSE]]
         /\ requestedEvents' = requestedEvents \cup
                {[requestId |-> requestId, batchId |-> batchId]}
         /\ lastCall' = Call("requestBatchDecryption", caller, "ok", batchId)
         /\ UNCHANGED dashVars
         /\ UNCHANGED << owner, providers, paused, cooldownSeconds, lastSubmissionTime,
                         currentBatchId, batchClosed, userStates, batchResults,
                         submitted, accepted, completions, adminCalls, now, failedVerification >>
         /\ WithinBounds

\* FHE.requestDecryption hands the ciphertexts to the oracle and returns a
\* fresh request id.
requestBatchDecryption(caller, batchId) ==
    LET err == RequestError(caller, batchId)
        handles == Ciphertexts(batchResults[batchId])
        stateHash == _hashCiphertexts(ToCts(handles))
        requestId == requestCounter
    IN
    IF err # "ok" THEN Reverts("requestBatchDecryption", caller, err, batchId)
    ELSE /\ lastDecryptionRequestTime' = [lastDecryptionRequestTime EXCEPT ![caller] = now]
         /\ requestCounter' = requestCounter + 1
         /\ oracleRequests' = [oracleRequests EXCEPT ![requestId] = handles]
         /\ decryptionContexts' = [decryptionContexts EXCEPT ![requestId] =
                [batchId |-> batchId, stateHash |-> stateHash, processed |-> FALSE]]
         /\ requestedEvents' = requestedEvents \cup
                {[requestId |-> requestId, batchId |-> batchId]}
         /\ lastCall' = Call("requestBatchDecryption", caller, "ok", batchId)
         /\ UNCHANGED dashVars
         /\ UNCHANGED << owner, providers, paused, cooldownSeconds, lastSubmissionTime,
                         currentBatchId, batchClosed, userStates, batchResults,
                         submitted, accepted, completions, adminCalls, now, failedVerification >>
         /\ WithinBounds

(***************************************************************************)
(* The oracle.  It decrypts the handles of a request it was given and      *)
(* signs (request id, cleartexts); FHE.checkSignatures accepts exactly the *)
(* oracle's signatures over the request id and cleartexts it is given.     *)
(***************************************************************************)
Issued(q) == oracleRequests[q] # <<>>

\* The cleartext words, one 32-byte word per ciphertext, in request order.
Decrypt(handles) == [i \in 1..Len(handles) |-> Plain(handles[i])]

ZeroWords == << U32(0), U32(0), U32(0), U32(0) >>

Tamper(words) == [words EXCEPT ![1] = Add32(@, U32(1))]

Signature(signer, q, words) == [signer |-> signer, requestId |-> q, cleartexts |-> words]

OracleSignatures ==
    { Signature("kms", q, Decrypt(oracleRequests[q])) : q \in {r \in RequestIds : Issued(r)} }

FHE_checkSignatures(requestId, cleartexts, proof) ==
    /\ proof.signer = "kms"
    /\ proof.requestId = requestId
    /\ proof.cleartexts = cleartexts

\* What a caller of myCallback can supply for request id q.
CleartextInputs(q) ==
    IF Issued(q)
    THEN { Decrypt(oracleRequests[q]), Tamper(Decrypt(oracleRequests[q])) }
    ELSE { ZeroWords }

ProofInputs(q, words) == OracleSignatures \cup { Signature("forged", q, words) }

(***************************************************************************)
(* Callback.                                                               *)
(***************************************************************************)
\* Mutant of CallbackError: the replay guard of line 1084 is missing.
CallbackError_NoReplayGuard(requestId, cleartexts, proof) ==
    LET context == decryptionContexts[requestId]
        results == batchResults[context.batchId]
        currentStateHash == _hashCiphertexts(ToCts(Ciphertexts(results)))
    IN  FirstError(<< _requireInitialized(results.totalValueSumEncrypted),
                      IF currentStateHash # context.stateHash THEN "StateMismatch" ELSE "ok",
                      IF ~FHE_checkSignatures(requestId, cleartexts, proof)
                      THEN "InvalidProof" ELSE "ok" >>)

\* Mutant of CallbackError: the state-binding check of line 1099 is missing.
CallbackError_NoStateCheck(requestId, cleartexts, proof) ==
    LET context == decryptionContexts[requestId]
        results == batchResults[context.batchId]
    IN  FirstError(<< IF context.processed THEN "ReplayAttempt" ELSE "ok",
                      _requireInitialized(results.totalValueSumEncrypted),
                      IF ~FHE_checkSignatures(requestId, cleartexts, proof)
                      THEN "InvalidProof" ELSE "ok" >>)

\* Mutant of CallbackError: the proof check of line 1104 is missing.
CallbackError_NoProofCheck(requestId, cleartexts, proof) ==
    LET context == decryptionContexts[requestId]
        results == batchResults[context.batchId]
        currentStateHash == _hashCiphertexts(ToCts(Ciphertexts(results)))
    IN  FirstError(<< IF context.processed THEN "ReplayAttempt" ELSE "ok",
                      _requireInitialized(results.totalValueSumEncrypted),
                      IF currentStateHash # context.stateHash THEN "StateMismatch" ELSE "ok" >>)

\* Mutant of CallbackError: the proof is checked first.
CallbackError_ProofFirst(requestId, cleartexts, proof) ==
    LET context == decryptionContexts[requestId]
        results == batchResults[context.batchId]
        currentStateHash == _hashCiphertexts(ToCts(Ciphertexts(results)))
    IN  FirstError(<< IF ~FHE_checkSignatures(requestId, cleartexts, proof)
                      THEN "InvalidProof" ELSE "ok",
                      IF context.processed THEN "ReplayAttempt" ELSE "ok",
                      _requireInitialized(results.totalValueSumEncrypted),
                      IF currentStateHash # context.stateHash THEN "StateMismatch" ELSE "ok" >>)

\* Mutant of CallbackError: the initialization check of line 1090 is missing.
CallbackError_NoInitCheck(requestId, cleartexts, proof) ==
    LET context == decryptionContexts[requestId]
        results == batchResults[context.batchId]
        currentStateHash == _hashCiphertexts(ToCts(Ciphertexts(results)))
    IN  FirstError(<< IF context.processed THEN "ReplayAttempt" ELSE "ok",
                      IF currentStateHash # context.stateHash THEN "StateMismatch" ELSE "ok",
                      IF ~FHE_checkSignatures(requestId, cleartexts, proof)
                      THEN "InvalidProof" ELSE "ok" >>)

\* Mutant of CallbackError: the callback is refused while the contract is paused.
CallbackError_WhenNotPaused(requestId, cleartexts, proof) ==
    LET context == decryptionContexts[requestId]
        results == batchResults[context.batchId]
        currentStateHash == _hashCiphertexts(ToCts(Ciphertexts(results)))
    IN  FirstError(<< whenNotPaused,
                      IF context.processed THEN "ReplayAttempt" ELSE "ok",
                      _requireInitialized(results.totalValueSumEncrypted),
                      IF currentStateHash # context.stateHash THEN "StateMismatch" ELSE "ok",
                      IF ~FHE_checkSignatures(requestId, cleartexts, proof)
                      THEN "InvalidProof" ELSE "ok" >>)

CallbackError(requestId, cleartexts, proof) ==
    LET context == decryptionContexts[requestId]
        results == batchResults[context.batchId]
        currentStateHash == _hashCiphertexts(ToCts(Ciphertexts(results)))
    IN  FirstError(<< IF context.processed THEN "ReplayAttempt" ELSE "ok",
                      _requireInitialized(results.totalValueSumEncrypted),
                      IF currentStateHash # context.stateHash THEN "StateMismatch" ELSE "ok",
                      IF ~FHE_checkSignatures(requestId, cleartexts, proof)
                      THEN "InvalidProof" ELSE "ok" >>)

\* Mutant of Completion: the first two words are taken in the wrong order.
Completion_Swapped(requestId, batchId, cleartexts) ==
    [ requestId         |-> requestId,
      batchId           |-> batchId,
      totalValueSum     |-> cleartexts[2],
      riskPreferenceSum |-> cleartexts[1],
      rebalanceAmount1  |-> cleartexts[3],
      rebalanceAmount2  |-> cleartexts[4] ]

\* Lines 1108-1116: the payload of DecryptionCompleted.
Completion(requestId, batchId, cleartexts) ==
    [ requestId         |-> requestId,
      batchId           |-> batchId,
      totalValueSum     |-> cleartexts[1],
      riskPreferenceSum |-> cleartexts[2],
      rebalanceAmount1  |-> cleartexts[3],
      rebalanceAmount2  |-> cleartexts[4] ]

\* Mutant of myCallback: the memory copy of the context is marked processed
\* but never written back to storage (line 1114 is missing).
myCallback_NoWriteBack(caller, requestId, cleartexts, proof) ==
    LET err == CallbackError(requestId, cleartexts, proof)
        context == decryptionContexts[requestId]
    IN
    IF err # "ok" THEN Reverts("myCallback", caller, err, requestId)
    ELSE /\ completions' = [completions EXCEPT ![requestId] =
                Append(@, Completion(requestId, context.batchId, cleartexts))]
         /\ lastCall' = Call("myCallback", caller, "ok", requestId)
         /\ UNCHANGED dashVars
         /\ UNCHANGED << owner, providers, paused, cooldownSeconds, lastSubmissionTime,
                         lastDecryptionRequestTime, currentBatchId, batchClosed,
                         decryptionContexts, userStates, batchResults, requestCounter,
                         oracleRequests, submitted, accepted, requestedEvents, adminCalls, now,
                         failedVerification >>

\* Mutant of myCallback: the context is deleted once the request is completed.
myCallback_DeletesContext(caller, requestId, cleartexts, proof) ==
    LET err == CallbackError(requestId, cleartexts, proof)
        context == decryptionContexts[requestId]
    IN
    IF err # "ok" THEN Reverts("myCallback", caller, err, requestId)
    ELSE /\ decryptionContexts' = [decryptionContexts EXCEPT ![requestId] = EmptyContext]
         /\ completions' = [completions EXCEPT ![requestId] =
                Append(@, Completion(requestId, context.batchId, cleartexts))]
         /\ lastCall' = Call("myCallback", caller, "ok", requestId)
         /\ UNCHANGED dashVars
         /\ UNCHANGED << owner, providers, paused, cooldownSeconds, lastSubmissionTime,
                         lastDecryptionRequestTime, currentBatchId, batchClosed,
                         userStates, batchResults, requestCounter, oracleRequests,
                         submitted, accepted, requestedEvents, adminCalls, now,
                         failedVerification >>

\* Mutant of myCallback: completing a request marks every context of the
\* same batch processed.
myCallback_CompletesBatch(caller, requestId, cleartexts, proof) ==
    LET err == CallbackError(requestId, cleartexts, proof)
        context == decryptionContexts[requestId]
    IN
    IF err # "ok" THEN Reverts("myCallback", caller, err, requestId)
    ELSE /\ decryptionContexts' =
                [q \in DOMAIN decryptionContexts |->
                    IF oracleRequests[q] # <<>>
                       /\ decryptionContexts[q].batchId = context.batchId
                    THEN [decryptionContexts[q] EXCEPT !.processed = TRUE]
                    ELSE decryptionContexts[q]]
         /\ completions' = [completions EXCEPT ![requestId] =
                Append(@, Completion(requestId, context.batchId, cleartexts))]
         /\ lastCall' = Call("myCallback", caller, "ok", requestId)
         /\ UNCHANGED dashVars
         /\ UNCHANGED << owner, providers, paused, cooldownSeconds, lastSubmissionTime,
                         lastDecryptionRequestTime, currentBatchId, batchClosed,
                         userStates, batchResults, requestCounter, oracleRequests,
                         submitted, accepted, requestedEvents, adminCalls, now,
                         failedVerification >>

myCallback(caller, requestId, cleartexts, proof) ==
    LET err == CallbackError(requestId, cleartexts, proof)
        context == decryptionContexts[requestId]
    IN
    IF err # "ok" THEN Reverts("myCallback", caller, err, requestId)
    ELSE /\ decryptionContexts' = [decryptionContexts EXCEPT ![requestId] =
                [context EXCEPT !.processed = TRUE]]
         /\ completions' = [completions EXCEPT ![requestId] =
                Append(@, Completion(requestId, context.batchId, cleartexts))]
         /\ lastCall' = Call("myCallback", caller, "ok", requestId)
         /\ UNCHANGED dashVars
         /\ UNCHANGED << owner, providers, paused, cooldownSeconds, lastSubmissionTime,
                         lastDecryptionRequestTime, currentBatchId, batchClosed,
                         userStates, batchResults, requestCounter, oracleRequests,
                         submitted, accepted, requestedEvents, adminCalls, now, failedVerification >>

(***************************************************************************)
(* Time passes between calls (block.timestamp never decreases).            *)
(***************************************************************************)
Tick(d) ==
    /\ now + d <= MaxTime
    /\ now' = now + d
    /\ lastCall' = Call("tick", "none", "ok", 0)
    /\ UNCHANGED dashVars
    /\ UNCHANGED << contractVars, envVars, failedVerification >>

AdminNext ==
    \/ \E caller \in Addresses, newOwner \in Addresses : transferOwnership(caller, newOwner)
    \/ \E caller \in Addresses, provider \in Addresses : addProvider(caller, provider)
    \/ \E caller \in Addresses, provider \in Addresses : removeProvider(caller, provider)
    \/ \E caller \in Addresses, _paused \in BOOLEAN : setPaused(caller, _paused)
    \/ \E caller \in Addresses, c \in CooldownValues : setCooldownSeconds(caller, c)

ProtocolNext ==
    \/ \E caller \in Addresses : openNewBatch(caller)
    \/ \E caller \in Addresses : closeCurrentBatch(caller)
    \/ \E caller \in Addresses, s \in Submissions : submitPortfolioData(caller, s)
    \/ \E caller \in Addresses, batchId \in 0..(currentBatchId + 1) :
          requestBatchDecryption(caller, batchId)
    \/ \E caller \in CallbackCallers, q \in 0..requestCounter :
          \E words \in CleartextInputs(q) :
             \E proof \in ProofInputs(q, words) : myCallback(caller, q, words, proof)
    \/ \E d \in TimeSteps : Tick(d)

Next == AdminNext \/ ProtocolNext

Spec == Init /\ [][Next]_vars

(***************************************************************************)
(* A test harness that bypasses the lifecycle: it folds a submission into  *)
(* a batch that is already closed (lines 1029-1047 without the checks of   *)
(* lines 1013-1017).  No call of the contract can do this; the harness     *)
(* exists to exercise the state-binding check of myCallback.               *)
(***************************************************************************)
HarnessAggregate(batchId, s) ==
    LET base == 10 * submitted IN
    /\ batchClosed[batchId]
    /\ WithinBounds
    /\ batchResults' = [batchResults EXCEPT ![batchId] =
                           Aggregate(SeedResults(@, base), s, base)]
    /\ submitted' = submitted + 1
    /\ accepted' = [accepted EXCEPT ![batchId] = Append(@, s)]
    /\ lastCall' = Call("harness", "none", "ok", batchId)
    /\ UNCHANGED dashVars
    /\ UNCHANGED << owner, providers, paused, cooldownSeconds, lastSubmissionTime,
                    lastDecryptionRequestTime, currentBatchId, batchClosed,
                    decryptionContexts, userStates, requestCounter, oracleRequests,
                    requestedEvents, completions, adminCalls, now, failedVerification >>

\* The harness runs the protocol under the constructor's settings.
NextHarness ==
    \/ ProtocolNext
    \/ \E batchId \in BatchIds, s \in Submissions : HarnessAggregate(batchId, s)

SpecHarness == Init /\ [][NextHarness]_vars


(***************************************************************************)
(* Aggregation with three providers.  The run starts in the state the      *)
(* contract is in after the constructor and after the owner has added two  *)
(* further providers; the counters of the history budget start at 0.  The  *)
(* providers submit into the batches the owner opens and closes.           *)
(***************************************************************************)
Providers3 == {"a1", "a2", "a3"}

InitOrder ==
    /\ owner = Deployer
    /\ providers = [a \in Providers3 |-> TRUE]
    /\ paused = FALSE
    /\ cooldownSeconds = 60
    /\ lastSubmissionTime = [a \in Providers3 |-> 0]
    /\ lastDecryptionRequestTime = [a \in Providers3 |-> 0]
    /\ currentBatchId = 1
    /\ batchClosed = [b \in BatchIds |-> FALSE]
    /\ decryptionContexts = [q \in RequestIds |-> EmptyContext]
    /\ userStates = [a \in Providers3 |-> EmptyUserState]
    /\ batchResults = [b \in BatchIds |-> EmptyResults]
    /\ now = 0
    /\ requestCounter = 1
    /\ oracleRequests = [q \in RequestIds |-> <<>>]
    /\ submitted = 0
    /\ accepted = [b \in BatchIds |-> <<>>]
    /\ requestedEvents = {}
    /\ completions = [q \in RequestIds |-> <<>>]
    /\ adminCalls = 0
    /\ failedVerification = {}
    /\ lastCall = Call("addProvider", Deployer, "ok", 0)
    /\ DashboardInit

NextOrder ==
    \/ \E caller \in Providers3, s \in Submissions : submitPortfolioData(caller, s)
    \/ \E caller \in Providers3 : openNewBatch(caller)
    \/ \E caller \in Providers3 : closeCurrentBatch(caller)
    \/ \E d \in TimeSteps : Tick(d)

SpecOrder == InitOrder /\ [][NextOrder]_vars

(***************************************************************************)
(* Runs without a cooldown.  The run starts in the state the contract is   *)
(* in after the constructor and after the owner has called                 *)
(* setCooldownSeconds(0); the counters of the history budget start at 0.   *)
(* An address can then submit, and the owner can request decryption,       *)
(* several times at the same block.timestamp.                              *)
(***************************************************************************)
InitNoCooldown ==
    /\ owner = Deployer
    /\ providers = [a \in Addresses |-> a = Deployer]
    /\ paused = FALSE
    /\ cooldownSeconds = 0
    /\ lastSubmissionTime = [a \in Addresses |-> 0]
    /\ lastDecryptionRequestTime = [a \in Addresses |-> 0]
    /\ currentBatchId = 1
    /\ batchClosed = [b \in BatchIds |-> FALSE]
    /\ decryptionContexts = [q \in RequestIds |-> EmptyContext]
    /\ userStates = [a \in Addresses |-> EmptyUserState]
    /\ batchResults = [b \in BatchIds |-> EmptyResults]
    /\ now = 0
    /\ requestCounter = 1
    /\ oracleRequests = [q \in RequestIds |-> <<>>]
    /\ submitted = 0
    /\ accepted = [b \in BatchIds |-> <<>>]
    /\ requestedEvents = {}
    /\ completions = [q \in RequestIds |-> <<>>]
    /\ adminCalls = 0
    /\ failedVerification = {}
    /\ lastCall = Call("setCooldownSeconds", Deployer, "ok", 0)
    /\ DashboardInit

\* The batch, submission and decryption operations, without further
\* administration calls.
SpecNoCooldown == InitNoCooldown /\ [][ProtocolNext]_vars

(***************************************************************************)
(* A fair oracle: for every pending request the oracle eventually calls    *)
(* myCallback with its decryption of the requested ciphertexts and its     *)
(* signature, if that call stays possible.                                 *)
(***************************************************************************)
OracleDelivers(q) ==
    /\ Issued(q)
    /\ ~decryptionContexts[q].processed
    /\ myCallback(Oracle, q, Decrypt(oracleRequests[q]),
                  Signature("kms", q, Decrypt(oracleRequests[q])))

SpecFairOracle ==
    Init /\ [][Next]_vars /\ \A q \in RequestIds : WF_vars(OracleDelivers(q))

(***************************************************************************)
(* The dashboard (submitPortfolio, lines 166-232, and loadPortfolios,      *)
(* lines 101-164).  It keeps its records in a key-value store through      *)
(* getData and setData: setData replaces the bytes under a key, getData    *)
(* returns them, empty if none.  A run awaits each store call, so calls of *)
(* different runs interleave between its steps.  The bytes under           *)
(* "portfolio_keys" are the JSON text of the list of ids, kept here as the *)
(* sequence of its tokens.                                                 *)
(***************************************************************************)
PortfolioId(r) == r

RECURSIVE JsonItems(_)
JsonItems(keys) ==
    IF keys = <<>> THEN <<>>
    ELSE IF Len(keys) = 1 THEN << Head(keys) >>
    ELSE << Head(keys), "," >> \o JsonItems(Tail(keys))

\* ethers.toUtf8Bytes(JSON.stringify(keys))
JsonStringify(keys) == << "[" >> \o JsonItems(keys) \o << "]" >>

IsPunctuation(token) == token \in {"[", ",", "]"}

\* Lines 201-210: an empty value gives the empty list, otherwise
\* JSON.parse(ethers.toUtf8String(keysBytes)).
ParseKeys(keysBytes) ==
    IF Len(keysBytes) > 0 THEN SelectSeq(keysBytes, LAMBDA token : ~IsPunctuation(token))
    ELSE <<>>

\* The store behind contract.getData and contract.setData keeps one value per
\* key: setData replaces the value held under the key, getData returns the
\* value held under it.
setData(held, value) == value

getData(held) == held

dashboardFrame == UNCHANGED << contractVars, envVars, now, failedVerification, lastCall >>

\* Line 196: await contract.setData(`portfolio_${portfolioId}`, ...)
StoreRecord(r) ==
    /\ runPc[r] = "idle"
    /\ kvRecords' = kvRecords \cup {PortfolioId(r)}
    /\ runPc' = [runPc EXCEPT ![r] = "stored"]
    /\ UNCHANGED << kvKeys, runKeys, dashboardList >>
    /\ dashboardFrame

\* Lines 200-210: const keysBytes = await contract.getData("portfolio_keys")
ReadKeys(r) ==
    /\ runPc[r] = "stored"
    /\ runKeys' = [runKeys EXCEPT ![r] = ParseKeys(getData(kvKeys))]
    /\ runPc' = [runPc EXCEPT ![r] = "read"]
    /\ UNCHANGED << kvKeys, kvRecords, dashboardList >>
    /\ dashboardFrame

\* Lines 211-215: keys.push(portfolioId); await contract.setData("portfolio_keys", ...)
WriteKeys(r) ==
    /\ runPc[r] = "read"
    /\ kvKeys' = setData(kvKeys, JsonStringify(Append(runKeys[r], PortfolioId(r))))
    /\ runKeys' = [runKeys EXCEPT ![r] = Append(@, PortfolioId(r))]
    /\ runPc' = [runPc EXCEPT ![r] = "written"]
    /\ UNCHANGED << kvRecords, dashboardList >>
    /\ dashboardFrame

\* Line 217 and lines 101-164: await loadPortfolios() lists the ids of
\* "portfolio_keys" that have a record.  Records are never deleted, so the
\* reads of one load are taken together.
LoadPortfolios(r) ==
    /\ runPc[r] = "written"
    /\ dashboardList' = [dashboardList EXCEPT ![r] =
                            SelectSeq(ParseKeys(getData(kvKeys)), LAMBDA key : key \in kvRecords)]
    /\ runPc' = [runPc EXCEPT ![r] = "done"]
    /\ UNCHANGED << kvKeys, kvRecords, runKeys >>
    /\ dashboardFrame

\* Lines 223-228: a store call is rejected or fails; the run ends in the
\* catch block.
RunFails(r) ==
    /\ runPc[r] \in {"idle", "stored", "read"}
    /\ runPc' = [runPc EXCEPT ![r] = "failed"]
    /\ UNCHANGED << kvKeys, kvRecords, runKeys, dashboardList >>
    /\ dashboardFrame

NextDashboard ==
    \/ \E r \in Runs : StoreRecord(r)
    \/ \E r \in Runs : ReadKeys(r)
    \/ \E r \in Runs : WriteKeys(r)
    \/ \E r \in Runs : LoadPortfolios(r)
    \/ \E r \in Runs : RunFails(r)

SpecDashboard == Init /\ [][NextDashboard]_vars

(***************************************************************************)
(* Properties.                                                             *)
(***************************************************************************)
IssuedIds == {q \in RequestIds : Issued(q)}

Initialized(batchId) == FHE_isInitialized(batchResults[batchId].totalValueSumEncrypted)

\* An otherwise acceptable submission by a: a provider, not paused, cooldown elapsed.
SubmitAllowedUpToBatch(a) ==
    /\ onlyProvider(a) = "ok"
    /\ whenNotPaused = "ok"
    /\ CooldownCheck(lastSubmissionTime[a]) = "ok"

\* C1: once closeCurrentBatch has succeeded for a batch, no call changes any
\* of its four accumulators, and a submitPortfolioData call made while the
\* current batch is closed fails, with BatchClosedOrInvalid when the caller
\* passes the provider, pause and cooldown checks that come first.
C1_ClosedBatchFrozen ==
    /\ [](\A a \in Addresses :
            batchClosed[currentBatchId] =>
               /\ SubmitError(a) # "ok"
               /\ SubmitAllowedUpToBatch(a) => SubmitError(a) = "BatchClosedOrInvalid")
    /\ [][\A R \in BatchIds : batchClosed[R] => batchResults'[R] = batchResults[R]]_vars
    /\ [][lastCall'.op = "submitPortfolioData" /\ batchClosed[currentBatchId]
            => lastCall'.err # "ok" /\ batchResults' = batchResults]_vars

\* A submission was refused for a closed batch that holds aggregates.
C1_Witness ==
    /\ lastCall.op = "submitPortfolioData"
    /\ lastCall.err = "BatchClosedOrInvalid"
    /\ batchClosed[currentBatchId]
    /\ Initialized(currentBatchId)

\* C2: myCallback succeeds at most once per request id: once a request is
\* processed it has exactly one completion, every further myCallback for it
\* fails with ReplayAttempt whatever cleartexts and proof are supplied, and
\* the failing call changes nothing and emits nothing.
C2_CallbackAtMostOnce ==
    /\ [](\A q \in RequestIds :
            /\ Len(completions[q]) <= 1
            /\ decryptionContexts[q].processed <=> Len(completions[q]) = 1
            /\ decryptionContexts[q].processed =>
                  \A words \in CleartextInputs(q) :
                     \A proof \in ProofInputs(q, words) :
                        CallbackError(q, words, proof) = "ReplayAttempt")
    /\ [][lastCall'.op = "myCallback" /\ decryptionContexts[lastCall'.arg].processed
            => /\ lastCall'.err = "ReplayAttempt"
               /\ UNCHANGED << contractVars, envVars >>]_vars

\* A second callback for a processed request was refused as a replay.
C2_Witness ==
    /\ lastCall.op = "myCallback"
    /\ lastCall.err = "ReplayAttempt"
    /\ decryptionContexts[lastCall.arg].processed
    /\ Len(completions[lastCall.arg]) = 1

\* The aggregates stored for the batch of request q still hash to the hash
\* stored when q was issued.
HashMatches(q) ==
    _hashCiphertexts(ToCts(Ciphertexts(batchResults[decryptionContexts[q].batchId])))
        = decryptionContexts[q].stateHash

Pending(q) == Issued(q) /\ ~decryptionContexts[q].processed

\* The oracle's answer to request q: the decryption of the handles it was given.
OracleWords(q) == Decrypt(oracleRequests[q])

IsCallback(call, err) == call.op = "myCallback" /\ call.err = err

\* C3: myCallback publishes only if the aggregates now stored for the
\* request's batch hash to the stateHash stored at request time; if they
\* differ, every callback for the pending request fails with StateMismatch,
\* whatever cleartexts and proof are supplied, the context stays unprocessed
\* and no completion is emitted.
C3_StateBinding ==
    /\ [](IsCallback(lastCall, "ok") => HashMatches(lastCall.arg))
    /\ [](\A q \in RequestIds :
            Pending(q) /\ ~HashMatches(q) =>
               \A words \in CleartextInputs(q) :
                  \A proof \in ProofInputs(q, words) :
                     CallbackError(q, words, proof) = "StateMismatch")
    /\ [][lastCall'.op = "myCallback" /\ Pending(lastCall'.arg) /\ ~HashMatches(lastCall'.arg)
            => /\ lastCall'.err = "StateMismatch"
               /\ UNCHANGED << decryptionContexts, completions >>]_vars

\* A callback for a pending request was refused because the aggregates changed.
C3_Witness ==
    /\ IsCallback(lastCall, "StateMismatch")
    /\ Pending(lastCall.arg)
    /\ ~HashMatches(lastCall.arg)

\* C4: a callback for a pending request with tampered cleartexts or a forged
\* proof fails with InvalidProof and leaves the context unprocessed; the
\* oracle's cleartexts and proof for the same request id are still accepted
\* afterwards, and the accepted callback marks the request processed.
C4_InvalidProofThenRetry ==
    /\ [](\A q \in RequestIds :
            Pending(q) =>
               /\ \A proof \in ProofInputs(q, Tamper(OracleWords(q))) :
                     CallbackError(q, Tamper(OracleWords(q)), proof) = "InvalidProof"
               /\ CallbackError(q, OracleWords(q), Signature("forged", q, OracleWords(q)))
                     = "InvalidProof"
               /\ CallbackError(q, OracleWords(q), Signature("kms", q, OracleWords(q))) = "ok")
    /\ [](IsCallback(lastCall, "InvalidProof") => Pending(lastCall.arg))
    /\ [][IsCallback(lastCall', "InvalidProof")
            => UNCHANGED << decryptionContexts, completions >>]_vars
    /\ [][IsCallback(lastCall', "ok") /\ lastCall'.arg \in failedVerification
            => decryptionContexts'[lastCall'.arg].processed]_vars

\* A callback succeeded for a request whose earlier callback had failed.
C4_Witness ==
    /\ IsCallback(lastCall, "ok")
    /\ lastCall.arg \in failedVerification
    /\ decryptionContexts[lastCall.arg].processed

\* C5 as claimed: a request whose callback failed verification once is never
\* processed afterwards.
C5_FailedIsPermanent ==
    \A q \in failedVerification : ~decryptionContexts[q].processed

\* C5 as amended: a context, once created, changes only from unprocessed to
\* processed, by a successful myCallback for its request id, and stays
\* processed; a failed verification leaves the request pending and it can
\* still be completed while its batch's aggregates hash to the stored hash.
C5_RequestedToCompleted ==
    /\ [][\A q \in RequestIds :
            Issued(q) /\ decryptionContexts'[q] # decryptionContexts[q] =>
               /\ IsCallback(lastCall', "ok") /\ lastCall'.arg = q
               /\ decryptionContexts'[q] =
                     [decryptionContexts[q] EXCEPT !.processed = TRUE]]_vars
    /\ [][IsCallback(lastCall', "ok") =>
            /\ ~decryptionContexts[lastCall'.arg].processed
            /\ decryptionContexts'[lastCall'.arg].processed]_vars
    /\ [][\A q \in RequestIds :
            decryptionContexts[q].processed => decryptionContexts'[q].processed]_vars
    /\ [](\A q \in failedVerification :
            Pending(q) /\ HashMatches(q) =>
               CallbackError(q, OracleWords(q), Signature("kms", q, OracleWords(q))) = "ok")

\* A request was completed although one of its callbacks had failed before.
C5_Witness ==
    \E q \in failedVerification :
       decryptionContexts[q].processed /\ Len(completions[q]) = 1

C7_RequestOnlyClosed ==
    /\ [](\A q \in RequestIds :
            Issued(q) =>
               /\ batchClosed[decryptionContexts[q].batchId]
               /\ Initialized(decryptionContexts[q].batchId))
    /\ [](\A R \in BatchIds :
            ~batchClosed[R] =>
               \A a \in Addresses :
                  /\ RequestError(a, R) # "ok"
                  /\ a = owner /\ ~paused => RequestError(a, R) = "BatchClosedOrInvalid")
    /\ [][lastCall'.op = "requestBatchDecryption" /\ lastCall'.err = "ok"
            => batchClosed[lastCall'.arg]]_vars

\* A request for the open current batch, which holds submissions, was refused.
C7_Witness ==
    /\ lastCall.op = "requestBatchDecryption"
    /\ lastCall.err = "BatchClosedOrInvalid"
    /\ lastCall.arg = currentBatchId
    /\ ~batchClosed[currentBatchId]
    /\ Initialized(currentBatchId)

\* C8: requestBatchDecryption for a closed batch without submissions never
\* succeeds; it fails with NotInitialized when the owner calls, the contract
\* is not paused and the owner's cooldown has elapsed; the failing call
\* creates no context and emits no DecryptionRequested event.
C8_EmptyBatchNotInitialized ==
    /\ [](\A R \in BatchIds :
            ~Initialized(R) =>
               /\ \A a \in Addresses : RequestError(a, R) # "ok"
               /\ ( /\ batchClosed[R]
                    /\ ~paused
                    /\ CooldownCheck(lastDecryptionRequestTime[owner]) = "ok" )
                  => RequestError(owner, R) = "NotInitialized")
    /\ [][lastCall'.op = "requestBatchDecryption" /\ lastCall'.err = "NotInitialized"
            => UNCHANGED << decryptionContexts, requestedEvents, requestCounter,
                            oracleRequests, lastDecryptionRequestTime >>]_vars

\* A request for a closed batch without submissions was refused.
C8_Witness ==
    /\ lastCall.op = "requestBatchDecryption"
    /\ lastCall.err = "NotInitialized"
    /\ batchClosed[lastCall.arg]
    /\ ~Initialized(lastCall.arg)

\* C9: a closed batch stays closed in every later state.
C9_ClosedIsTerminal ==
    [][\A R \in BatchIds : batchClosed[R] => batchClosed'[R]]_vars

\* A batch was closed and a later batch was opened and closed after it.
C9_Witness ==
    /\ currentBatchId > 1
    /\ batchClosed[1]
    /\ batchClosed[currentBatchId]

\* now < last + cooldownSeconds over the integers (cooldownSeconds may be
\* close to 2^256, where the sum exceeds every timestamp of the model).
InCooldown(last) ==
    IF cooldownSeconds < 0 THEN TRUE ELSE now < last + cooldownSeconds

\* C10: a submission (a decryption request) by an address that passes the
\* checks before the cooldown check fails with CooldownActive when
\* now < last + cooldownSeconds and is not rejected for cooldown otherwise,
\* last being the time of the address's last accepted submission (request).
C10_Cooldown ==
    /\ \A a \in Addresses :
          userStates[a] # EmptyUserState /\ providers[a] /\ ~paused =>
             (SubmitError(a) = "CooldownActive" <=> InCooldown(lastSubmissionTime[a]))
    /\ \A R \in BatchIds :
          requestedEvents # {} /\ batchClosed[R] /\ ~paused =>
             (RequestError(owner, R) = "CooldownActive"
                 <=> InCooldown(lastDecryptionRequestTime[owner]))

\* The protocol operations the pause switch guards.
PausableOps ==
    {"submitPortfolioData", "openNewBatch", "closeCurrentBatch", "requestBatchDecryption"}

\* The caller holds the role the operation requires.
Authorized(op, caller) ==
    IF op = "submitPortfolioData" THEN providers[caller] ELSE caller = owner

\* C11: while paused is true, a call of submitPortfolioData by a provider and
\* a call of openNewBatch, closeCurrentBatch or requestBatchDecryption by the
\* owner fails with Paused, and the failing call changes nothing: aggregates,
\* user states, currentBatchId, batchClosed, cooldown timestamps and
\* decryption contexts stay as they were and no event is emitted.
C11_PausedRejects ==
    /\ [](paused =>
            /\ \A a \in Addresses : providers[a] => SubmitError(a) = "Paused"
            /\ OpenNewBatchError(owner) = "Paused"
            /\ CloseCurrentBatchError(owner) = "Paused"
            /\ \A R \in BatchIds : RequestError(owner, R) = "Paused")
    /\ [][ ( /\ paused
             /\ lastCall'.op \in PausableOps
             /\ Authorized(lastCall'.op, lastCall'.caller) )
           => /\ lastCall'.err = "Paused"
              /\ UNCHANGED << contractVars, envVars >> ]_vars

\* While paused, the owner's decryption request for a closed batch that holds
\* aggregates was refused.
C11_Witness ==
    /\ paused
    /\ lastCall.op = "requestBatchDecryption"
    /\ lastCall.caller = owner
    /\ lastCall.err = "Paused"
    /\ batchClosed[lastCall.arg]
    /\ Initialized(lastCall.arg)

\* The operations only the owner may call.
OwnerOps ==
    {"transferOwnership", "addProvider", "removeProvider", "setPaused", "setCooldownSeconds",
     "openNewBatch", "closeCurrentBatch", "requestBatchDecryption"}

\* C12: a call of an owner-only operation by a caller other than the current
\* owner fails with NotOwner and changes nothing: owner, providers, paused,
\* cooldownSeconds, batch state and decryption contexts stay as they were.
C12_NotOwnerRejects ==
    /\ [](\A a \in Addresses :
            a # owner =>
               /\ onlyOwner(a) = "NotOwner"
               /\ OpenNewBatchError(a) = "NotOwner"
               /\ CloseCurrentBatchError(a) = "NotOwner"
               /\ \A R \in BatchIds : RequestError(a, R) = "NotOwner")
    /\ [][ lastCall'.op \in OwnerOps /\ lastCall'.caller # owner
           => /\ lastCall'.err = "NotOwner"
              /\ UNCHANGED << contractVars, envVars >> ]_vars

\* The deployer, after transferring the ownership, was refused as not the owner.
C12_Witness ==
    /\ lastCall.op \in OwnerOps
    /\ lastCall.caller = Deployer
    /\ lastCall.err = "NotOwner"
    /\ owner # Deployer

\* C13: submitPortfolioData by an address that is not in the provider set
\* (never added, or removed and not added again) fails with NotProvider and
\* changes neither a user state nor the aggregates of any batch.
C13_NotProviderRejects ==
    /\ [](\A a \in Addresses : ~providers[a] => SubmitError(a) = "NotProvider")
    /\ [][ lastCall'.op = "submitPortfolioData" /\ ~providers[lastCall'.caller]
           => /\ lastCall'.err = "NotProvider"
              /\ UNCHANGED << contractVars, envVars >> ]_vars
    /\ [][ lastCall'.op = "submitPortfolioData" /\ lastCall'.err = "ok"
           => providers[lastCall'.caller] ]_vars

\* A provider that had submitted was removed and its next submission was refused.
C13_Witness ==
    /\ lastCall.op = "submitPortfolioData"
    /\ lastCall.err = "NotProvider"
    /\ userStates[lastCall.caller] # EmptyUserState
    /\ ~providers[lastCall.caller]

\* C14: currentBatchId is 1 initially and never below 1; a successful
\* openNewBatch increases it by exactly 1 and nothing else changes it; an
\* accepted submission changes the aggregates of the current batch only.
C14_BatchIdsIncrease ==
    /\ currentBatchId = 1
    /\ [](currentBatchId >= 1)
    /\ [][ currentBatchId' # currentBatchId
           => lastCall'.op = "openNewBatch" /\ lastCall'.err = "ok" ]_vars
    /\ [][ lastCall'.op = "openNewBatch" /\ lastCall'.err = "ok"
           => currentBatchId' = currentBatchId + 1 ]_vars
    /\ [][ currentBatchId' >= currentBatchId ]_vars
    /\ [][ \A R \in BatchIds :
              batchResults'[R] # batchResults[R]
              => /\ R = currentBatchId
                 /\ currentBatchId' = currentBatchId
                 /\ lastCall'.op = "submitPortfolioData"
                 /\ lastCall'.err = "ok" ]_vars

\* After openNewBatch a submission was folded into batch 2, and batch 1 was
\* left as it was.
C14_Witness ==
    /\ currentBatchId = 2
    /\ lastCall.op = "submitPortfolioData"
    /\ lastCall.err = "ok"
    /\ Initialized(2)
    /\ ~Initialized(1)

(***************************************************************************)
(* The sums the aggregates are claimed to hold, computed over the integers *)
(* limb by limb and reduced mod 2^32 once at the end.                      *)
(***************************************************************************)
RECURSIVE SumInts(_)
SumInts(ns) == IF ns = <<>> THEN 0 ELSE Head(ns) + SumInts(Tail(ns))

\* The k-th limbs of one field of the submissions subs.
Limbs(subs, field, k) == [i \in 1..Len(subs) |-> subs[i][field].val[k]]

\* high * 2^16 + low, reduced mod 2^32; high and low may be any integers.
Norm32(high, low) == << (high + (low \div Limb)) % Limb, low % Limb >>

SumOf(subs, field) ==
    Norm32(SumInts(Limbs(subs, field, 1)), SumInts(Limbs(subs, field, 2)))

DiffSumOf(subs, target, current) ==
    Norm32(SumInts(Limbs(subs, target, 1)) - SumInts(Limbs(subs, current, 1)),
           SumInts(Limbs(subs, target, 2)) - SumInts(Limbs(subs, current, 2)))

ExpectedSums(subs) ==
    << SumOf(subs, "totalValueEncrypted"),
       SumOf(subs, "riskPreferenceEncrypted"),
       DiffSumOf(subs, "targetAllocation1Encrypted", "currentAllocation1Encrypted"),
       DiffSumOf(subs, "targetAllocation2Encrypted", "currentAllocation2Encrypted") >>

\* The plaintexts behind the four accumulators of batch R.
Plaintexts(R) == Decrypt(Ciphertexts(batchResults[R]))

\* C15: a batch holds aggregates exactly when a submission into it was
\* accepted, and then the plaintexts behind its four accumulators are, mod
\* 2^32, the sums of totalValue, of riskPreference, of target1 - current1
\* and of target2 - current2 over exactly the submissions accepted into it;
\* a rejected submission changes no aggregate.
C15_AggregatesAreSums ==
    /\ [](\A R \in BatchIds :
            /\ Initialized(R) <=> accepted[R] # <<>>
            /\ Initialized(R) => Plaintexts(R) = ExpectedSums(accepted[R]))
    /\ [][ lastCall'.op = "submitPortfolioData" /\ lastCall'.err # "ok"
           => batchResults' = batchResults /\ accepted' = accepted ]_vars
    /\ [][ lastCall'.op = "submitPortfolioData" /\ lastCall'.err = "ok"
           => /\ Len(accepted'[currentBatchId]) = Len(accepted[currentBatchId]) + 1
              /\ \A R \in BatchIds \ {currentBatchId} : accepted'[R] = accepted[R] ]_vars

\* Two submissions were accepted into a batch: the value sum wrapped around
\* 2^32 (4294967295 + 100) and the second rebalance sum went through a
\* negative difference (50 - 60, then 70 - 20).
C15_Witness ==
    \E R \in BatchIds :
       /\ Len(accepted[R]) = 2
       /\ Plaintexts(R)[1] = U32(99)
       /\ Plaintexts(R)[3] = U32(9)
       /\ Plaintexts(R)[4] = U32(40)

\* The submissions subs folded, in the order given, into the accumulators
\* results; the k-th of them is the (submittedBefore + k)-th accepted.
RECURSIVE Fold(_, _, _)
Fold(results, subs, submittedBefore) ==
    IF subs = <<>> THEN results
    ELSE Fold(Aggregate(SeedResults(results, 10 * submittedBefore), Head(subs),
                        10 * submittedBefore),
              Tail(subs), submittedBefore + 1)

\* The orders in which the submissions subs can be accepted.
Orders(subs) ==
    { [i \in 1..Len(subs) |-> subs[p[i]]] : p \in Permutations(1..Len(subs)) }

\* C16: for the submissions accepted into a batch, folding them into an
\* empty batch in any order gives the plaintexts the batch holds.
C16_OrderIndependent ==
    [](\A R \in BatchIds :
          Initialized(R) =>
             \A subs \in Orders(accepted[R]) :
                Decrypt(Ciphertexts(Fold(EmptyResults, subs, 0))) = Plaintexts(R))

\* Three distinct providers submitted into one open batch, not all the same values.
C16_Witness ==
    \E R \in BatchIds :
       /\ Len(accepted[R]) = 3
       /\ ~batchClosed[R]
       /\ \A a \in Providers3 : userStates[a] # EmptyUserState
       /\ \E i, j \in 1..3 : accepted[R][i] # accepted[R][j]

\* The batch id of the DecryptionRequested event of request q.
RequestedBatch(q) == (CHOOSE e \in requestedEvents : e.requestId = q).batchId

\* C17: a successful myCallback for request q emits exactly one completion,
\* tagged with q and with the batch id stored when q was requested, carrying
\* the cleartexts of the value sum, the risk sum and the two rebalance sums
\* of that batch, in this order.
C17_CompletionPayload ==
    /\ [][ IsCallback(lastCall', "ok") =>
             LET q == lastCall'.arg
                 R == RequestedBatch(q)
             IN  /\ Len(completions'[q]) = Len(completions[q]) + 1
                 /\ \A r \in RequestIds \ {q} : completions'[r] = completions[r]
                 /\ completions'[q][Len(completions'[q])] =
                       [ requestId         |-> q,
                         batchId           |-> R,
                         totalValueSum     |-> Plain(batchResults[R].totalValueSumEncrypted),
                         riskPreferenceSum |-> Plain(batchResults[R].riskPreferenceSumEncrypted),
                         rebalanceAmount1  |-> Plain(batchResults[R].rebalanceAmount1Encrypted),
                         rebalanceAmount2  |-> Plain(batchResults[R].rebalanceAmount2Encrypted) ] ]_vars
    /\ [][ completions' # completions => IsCallback(lastCall', "ok") ]_vars
    /\ [](\A q \in RequestIds :
            Issued(q) =>
               /\ decryptionContexts[q].batchId = RequestedBatch(q)
               /\ oracleRequests[q] = Ciphertexts(batchResults[RequestedBatch(q)]))

\* A request for batch 1 was completed while batch 2 was current, and the
\* four words it carries are pairwise different.
C17_Witness ==
    /\ IsCallback(lastCall, "ok")
    /\ Len(completions[lastCall.arg]) = 1
    /\ LET c == completions[lastCall.arg][1]
       IN  /\ c.batchId = 1
           /\ currentBatchId = 2
           /\ c.totalValueSum # c.riskPreferenceSum
           /\ c.rebalanceAmount1 # c.rebalanceAmount2
           /\ c.totalValueSum # c.rebalanceAmount1

\* The event word carries the integer n: event arguments are uint256, so a
\* word carries only non-negative integers; the words of the model are
\* below 2^32.
Carries(word, n) == n >= 0 /\ word = << n \div Limb, n % Limb >>

\* The scenario has run: one submission (100, 3, 50, 50, 40, 60) was
\* accepted into batch 1 under the constructor's cooldown, batch 1 was
\* closed and requested, and the oracle's callback has just succeeded.
ScenarioCompleted ==
    /\ IsCallback(lastCall, "ok")
    /\ lastCall.caller = Oracle
    /\ cooldownSeconds = 60
    /\ accepted[1] = << ScenarioSubmission >>
    /\ decryptionContexts[lastCall.arg].batchId = 1

\* C18: after the scenario the completion is tagged with the request id and
\* batch 1 and carries the four values 100, 3, 10 and -10.
C18_EndToEnd ==
    ScenarioCompleted =>
       LET c == completions[lastCall.arg][1]
       IN  /\ c.requestId = lastCall.arg
           /\ c.batchId = 1
           /\ Carries(c.totalValueSum, 100)
           /\ Carries(c.riskPreferenceSum, 3)
           /\ Carries(c.rebalanceAmount1, 10)
           /\ Carries(c.rebalanceAmount2, 0 - 10)

\* C19: a call either commits or fails without side effects: after a
\* failing call the contract state, the events and the oracle's requests are
\* what they were before it.  In particular a requestBatchDecryption that
\* fails with NotInitialized leaves the caller's lastDecryptionRequestTime
\* unchanged, so the caller's cooldown is still elapsed after it.
C19_FailsAtomically ==
    /\ [][ lastCall'.err # "ok" => UNCHANGED << contractVars, envVars, now >> ]_vars
    /\ [][ lastCall'.op = "requestBatchDecryption" /\ lastCall'.err = "NotInitialized"
           => lastDecryptionRequestTime' = lastDecryptionRequestTime ]_vars
    /\ []( lastCall.op = "requestBatchDecryption" /\ lastCall.err = "NotInitialized"
           => CooldownCheck(lastDecryptionRequestTime[lastCall.caller]) = "ok" )

\* A request failed with NotInitialized at a time later than the caller's
\* stored request time, which a committed write would have replaced.
C19_Witness ==
    /\ lastCall.op = "requestBatchDecryption"
    /\ lastCall.err = "NotInitialized"
    /\ cooldownSeconds = 60
    /\ lastDecryptionRequestTime[lastCall.caller] < now

\* C20: the context of an issued request is never deleted, its batchId and
\* stateHash never change, and its processed flag changes only from false
\* to true, by a successful myCallback for its own request id.
C20_ContextLifecycle ==
    /\ [](\A q \in RequestIds :
            Issued(q) =>
               /\ decryptionContexts[q].stateHash # ZeroHash
               /\ decryptionContexts[q].batchId = RequestedBatch(q)
               /\ decryptionContexts[q].stateHash = _hashCiphertexts(ToCts(oracleRequests[q])))
    /\ [][ \A q \in RequestIds :
              Issued(q) =>
                 /\ decryptionContexts'[q].batchId = decryptionContexts[q].batchId
                 /\ decryptionContexts'[q].stateHash = decryptionContexts[q].stateHash
                 /\ decryptionContexts[q].processed => decryptionContexts'[q].processed
                 /\ decryptionContexts'[q].processed # decryptionContexts[q].processed
                    => IsCallback(lastCall', "ok") /\ lastCall'.arg = q ]_vars
    /\ [][ lastCall'.op = "requestBatchDecryption" /\ lastCall'.err = "ok"
           => \E q \in RequestIds :
                 /\ ~Issued(q)
                 /\ decryptionContexts' = [decryptionContexts EXCEPT ![q] =
                       [batchId |-> lastCall'.arg,
                        stateHash |-> _hashCiphertexts(ToCts(Ciphertexts(batchResults[lastCall'.arg]))),
                        processed |-> FALSE]] ]_vars

\* A context was processed and is still stored, unchanged, after a later call.
C20_Witness ==
    \E q \in RequestIds :
       /\ Issued(q)
       /\ decryptionContexts[q].processed
       /\ decryptionContexts[q].batchId = 1
       /\ lastCall.op = "openNewBatch"
       /\ lastCall.err = "ok"

\* C21: the stateHash stored for an issued request is the hash of the
\* ciphertexts now stored for its batch; so two requests issued for the same
\* batch store the same hash, and no myCallback call fails with
\* StateMismatch.
C21_StoredHashIsCurrent ==
    /\ [](\A q \in RequestIds : Issued(q) => HashMatches(q))
    /\ [](\A q, r \in RequestIds :
            Issued(q) /\ Issued(r) /\ decryptionContexts[q].batchId = decryptionContexts[r].batchId
            => decryptionContexts[q].stateHash = decryptionContexts[r].stateHash)
    /\ [](~IsCallback(lastCall, "StateMismatch"))
    /\ [](\A q \in RequestIds :
            \A words \in CleartextInputs(q) :
               \A proof \in ProofInputs(q, words) :
                  CallbackError(q, words, proof) # "StateMismatch")

\* Two requests were issued for the same closed batch, and the second was
\* issued after the first had been completed.
C21_Witness ==
    \E q, r \in RequestIds :
       /\ q # r
       /\ Issued(q) /\ Issued(r)
       /\ decryptionContexts[q].batchId = decryptionContexts[r].batchId
       /\ decryptionContexts[q].processed
       /\ ~decryptionContexts[r].processed
       /\ lastCall.op = "requestBatchDecryption"
       /\ lastCall.err = "ok"

\* C22: in the state the constructor leaves, the owner is the deployer and a
\* provider, currentBatchId is 1 and batch 1 is open, the contract is not
\* paused, cooldownSeconds is 60, and there are no aggregates, no user
\* states and no decryption contexts.
C22_InitialState ==
    lastCall.op = "constructor" =>
       /\ owner = Deployer
       /\ lastCall.caller = owner
       /\ providers[owner]
       /\ currentBatchId = 1
       /\ ~batchClosed[1]
       /\ ~paused
       /\ cooldownSeconds = 60
       /\ \A R \in BatchIds : batchResults[R] = EmptyResults /\ ~Initialized(R)
       /\ \A a \in Addresses : userStates[a] = EmptyUserState
       /\ \A q \in RequestIds : decryptionContexts[q] = EmptyContext /\ ~Issued(q)
       /\ requestedEvents = {}

\* The state right after the constructor, before any call.
C22_Witness ==
    /\ lastCall.op = "constructor"
    /\ lastCall.caller = Deployer
    /\ onlyOwner(Deployer) = "ok"
    /\ onlyProvider(Deployer) = "ok"
    /\ now = 0

\* The submission accepted last into the current batch.
LastAccepted == accepted[currentBatchId][Len(accepted[currentBatchId])]

\* C23: an accepted submitPortfolioData by p leaves in userStates[p] exactly
\* the six fields of that submission, whatever p's snapshot was before, and
\* changes no other address's snapshot; a rejected submission and every
\* other operation leave all snapshots unchanged.
C23_SnapshotOverwritten ==
    /\ [][ lastCall'.op = "submitPortfolioData" /\ lastCall'.err = "ok"
           => LET p == lastCall'.caller
                  s == accepted'[currentBatchId][Len(accepted'[currentBatchId])]
              IN  /\ userStates'[p] = s
                  /\ \A a \in (DOMAIN userStates) \ {p} : userStates'[a] = userStates[a] ]_vars
    /\ [][ ~(lastCall'.op = "submitPortfolioData" /\ lastCall'.err = "ok")
           => userStates' = userStates ]_vars
    /\ [](\A a \in DOMAIN userStates :
            userStates[a] = EmptyUserState \/ userStates[a] \in Submissions)

\* A provider's second submission replaced its first, different snapshot.
C23_Witness ==
    /\ lastCall.op = "submitPortfolioData"
    /\ lastCall.err = "ok"
    /\ submitted = 2
    /\ \A a \in Addresses \ {lastCall.caller} : userStates[a] = EmptyUserState
    /\ userStates[lastCall.caller] = LastAccepted
    /\ \E R \in BatchIds : \E i \in 1..Len(accepted[R]) : accepted[R][i] # LastAccepted

\* C24: a successful removeProvider changes the providers flag of one
\* address to false and nothing else: aggregates, user states, cooldown
\* timestamps, batch state and decryption contexts are unchanged.  Closing,
\* requesting and decrypting a batch do not depend on the provider set: the
\* owner can close the open current batch, request a closed batch that
\* holds aggregates once the cooldown has elapsed, and the oracle's callback
\* for a pending request is accepted.
C24_RemoveProviderFrame ==
    /\ [][ lastCall'.op = "removeProvider" /\ lastCall'.err = "ok"
           => /\ \E p \in Addresses : providers' = [providers EXCEPT ![p] = FALSE]
              /\ UNCHANGED << owner, paused, cooldownSeconds, lastSubmissionTime,
                              lastDecryptionRequestTime, currentBatchId, batchClosed,
                              decryptionContexts, userStates, batchResults >> ]_vars
    /\ []( ~paused =>
             /\ ~batchClosed[currentBatchId] => CloseCurrentBatchError(owner) = "ok"
             /\ \A R \in BatchIds :
                   ( /\ batchClosed[R]
                     /\ Initialized(R)
                     /\ CooldownCheck(lastDecryptionRequestTime[owner]) = "ok" )
                   => RequestError(owner, R) = "ok" )
    /\ [](\A q \in RequestIds :
            Pending(q) =>
               CallbackError(q, OracleWords(q), Signature("kms", q, OracleWords(q))) = "ok")

\* The batch holding the submission of a provider that was then removed was
\* closed, requested and decrypted.
C24_Witness ==
    /\ IsCallback(lastCall, "ok")
    /\ \E a \in Addresses :
          /\ ~providers[a]
          /\ userStates[a] # EmptyUserState
          /\ \A b \in Addresses \ {a} : userStates[b] = EmptyUserState
    /\ completions[lastCall.arg][1].totalValueSum # U32(0)

\* C25: an accepted submitPortfolioData by a sets lastSubmissionTime[a] to
\* the current time and changes no other submission time and no request
\* time; an accepted requestBatchDecryption by a does the same for
\* lastDecryptionRequestTime[a]; no other call changes either.  Each
\* cooldown check reads its own timestamp only, so the owner's request is
\* not held back by the owner's recent submission, nor a submission by a
\* recent request.
C25_IndependentCooldowns ==
    /\ [][ lastCall'.op = "submitPortfolioData" /\ lastCall'.err = "ok"
           => /\ lastSubmissionTime' =
                    [lastSubmissionTime EXCEPT ![lastCall'.caller] = now]
              /\ lastDecryptionRequestTime' = lastDecryptionRequestTime ]_vars
    /\ [][ lastCall'.op = "requestBatchDecryption" /\ lastCall'.err = "ok"
           => /\ lastDecryptionRequestTime' =
                    [lastDecryptionRequestTime EXCEPT ![lastCall'.caller] = now]
              /\ lastSubmissionTime' = lastSubmissionTime ]_vars
    /\ [][ lastSubmissionTime' # lastSubmissionTime
           => lastCall'.op = "submitPortfolioData" /\ lastCall'.err = "ok" ]_vars
    /\ [][ lastDecryptionRequestTime' # lastDecryptionRequestTime
           => lastCall'.op = "requestBatchDecryption" /\ lastCall'.err = "ok" ]_vars
    /\ [](\A R \in BatchIds :
            ( /\ ~paused
              /\ batchClosed[R]
              /\ Initialized(R)
              /\ CooldownCheck(lastDecryptionRequestTime[owner]) = "ok" )
            => RequestError(owner, R) = "ok")
    /\ [](\A a \in Addresses :
            ( /\ providers[a]
              /\ ~paused
              /\ ~batchClosed[currentBatchId]
              /\ CooldownCheck(lastSubmissionTime[a]) = "ok" )
            => SubmitError(a) = "ok")

\* The owner submitted and, at the same timestamp under a cooldown of 60
\* seconds, requested the decryption of the batch.
C25_Witness ==
    /\ lastCall.op = "requestBatchDecryption"
    /\ lastCall.err = "ok"
    /\ lastCall.caller = owner
    /\ cooldownSeconds = 60
    /\ lastSubmissionTime[owner] = now
    /\ lastDecryptionRequestTime[owner] = now
    /\ now > 0
    /\ userStates[owner] # EmptyUserState

\* C26: closeCurrentBatch by the owner while not paused succeeds exactly when
\* the current batch is open; it sets batchClosed[currentBatchId] and
\* changes nothing else; on a current batch that is already closed it fails
\* with BatchClosedOrInvalid and changes nothing.
C26_CloseOnce ==
    /\ []( ~paused =>
             /\ CloseCurrentBatchError(owner) = "ok" <=> ~batchClosed[currentBatchId]
             /\ batchClosed[currentBatchId]
                => CloseCurrentBatchError(owner) = "BatchClosedOrInvalid" )
    /\ [][ lastCall'.op = "closeCurrentBatch" /\ lastCall'.err = "ok"
           => /\ ~batchClosed[currentBatchId]
              /\ batchClosed' = [batchClosed EXCEPT ![currentBatchId] = TRUE]
              /\ UNCHANGED << owner, providers, paused, cooldownSeconds, lastSubmissionTime,
                              lastDecryptionRequestTime, currentBatchId, decryptionContexts,
                              userStates, batchResults, envVars >> ]_vars
    /\ [][ lastCall'.op = "closeCurrentBatch" /\ batchClosed[currentBatchId]
           => /\ lastCall'.err # "ok"
              /\ UNCHANGED << contractVars, envVars >> ]_vars

\* A second closeCurrentBatch by the owner on the closed current batch was refused.
C26_Witness ==
    /\ lastCall.op = "closeCurrentBatch"
    /\ lastCall.caller = owner
    /\ lastCall.err = "BatchClosedOrInvalid"
    /\ batchClosed[currentBatchId]
    /\ ~paused

\* The custom errors the contract declares (lines 929-937).
NamedErrors ==
    {"NotOwner", "NotProvider", "Paused", "CooldownActive", "BatchClosedOrInvalid",
     "NotInitialized", "StateMismatch", "InvalidProof", "ReplayAttempt"}

\* C27: every call either succeeds or fails with one of the named errors,
\* whatever value the owner has given to cooldownSeconds.
C27_NamedErrorsOnly ==
    lastCall.err \in NamedErrors \cup {"ok"}

\* C28: myCallback checks the replay guard first, then the state binding,
\* then the proof.  For a processed request every call fails with
\* ReplayAttempt, also with an invalid proof and also when the stored hash
\* no longer matches; for an issued, unprocessed request whose hash does not
\* match every call fails with StateMismatch, with a valid and with an
\* invalid proof; only when the hash matches does an invalid proof give
\* InvalidProof.
C28_CheckOrder ==
    [](\A q \in RequestIds :
          \A words \in CleartextInputs(q) \cup {ZeroWords} :
             \A proof \in ProofInputs(q, words) :
                Issued(q) =>
                   CallbackError(q, words, proof) =
                      IF decryptionContexts[q].processed THEN "ReplayAttempt"
                      ELSE IF ~HashMatches(q) THEN "StateMismatch"
                      ELSE IF ~FHE_checkSignatures(q, words, proof) THEN "InvalidProof"
                      ELSE "ok")

\* A callback for a processed request whose batch has changed since was
\* refused as a replay, not as a state mismatch.
C28_Witness ==
    /\ IsCallback(lastCall, "ReplayAttempt")
    /\ decryptionContexts[lastCall.arg].processed
    /\ ~HashMatches(lastCall.arg)
    /\ Len(completions[lastCall.arg]) = 1

\* The batches left open when a later batch was opened.
Abandoned == {R \in BatchIds : 1 <= R /\ R < currentBatchId /\ ~batchClosed[R]}

\* C29: a batch that was still open when openNewBatch succeeded stays open:
\* no call closes it, no submission changes its aggregates, every
\* requestBatchDecryption for it fails (with BatchClosedOrInvalid when the
\* owner calls while not paused), and no request or completion exists for it.
C29_AbandonedStaysOpen ==
    /\ [][ \A R \in Abandoned :
              /\ ~batchClosed'[R]
              /\ batchResults'[R] = batchResults[R]
              /\ accepted'[R] = accepted[R] ]_vars
    /\ [][ lastCall'.op = "openNewBatch" /\ lastCall'.err = "ok" /\ ~batchClosed[currentBatchId]
           => ~batchClosed'[currentBatchId] /\ currentBatchId' # currentBatchId ]_vars
    /\ [](\A R \in Abandoned :
            /\ \A a \in Addresses : RequestError(a, R) # "ok"
            /\ ~paused => RequestError(owner, R) = "BatchClosedOrInvalid"
            /\ \A q \in RequestIds :
                  /\ Issued(q) => decryptionContexts[q].batchId # R
                  /\ \A i \in 1..Len(completions[q]) : completions[q][i].batchId # R)
    /\ [][ lastCall'.op = "requestBatchDecryption" /\ lastCall'.arg \in Abandoned
           => /\ lastCall'.err # "ok"
              /\ UNCHANGED << contractVars, envVars >> ]_vars

\* Batch 1 received a submission and was left open when batch 2 was opened;
\* batch 2 was closed and the owner's request for batch 1 was refused.
C29_Witness ==
    /\ 1 \in Abandoned
    /\ Initialized(1)
    /\ batchClosed[currentBatchId]
    /\ lastCall.op = "requestBatchDecryption"
    /\ lastCall.arg = 1
    /\ lastCall.caller = owner
    /\ lastCall.err = "BatchClosedOrInvalid"

\* C30: myCallback for a request id that was never issued never succeeds:
\* the default context names batch 0, which never holds aggregates, so the
\* call fails with NotInitialized whatever cleartexts and proof are
\* supplied, marks nothing processed and emits no completion.
C30_UnissuedNeverCompletes ==
    /\ [](currentBatchId >= 1 /\ ~Initialized(0) /\ accepted[0] = <<>>)
    /\ [](\A q \in RequestIds :
            ~Issued(q) =>
               /\ decryptionContexts[q] = EmptyContext
               /\ completions[q] = <<>>
               /\ \A words \in CleartextInputs(q) \cup
                              UNION {CleartextInputs(r) : r \in IssuedIds} :
                     \A proof \in ProofInputs(q, words) :
                        CallbackError(q, words, proof) = "NotInitialized")
    /\ [][ lastCall'.op = "myCallback" /\ ~Issued(lastCall'.arg)
           => /\ lastCall'.err = "NotInitialized"
              /\ UNCHANGED << contractVars, envVars >> ]_vars

\* A callback for an id that was never issued was refused while another
\* request was pending.
C30_Witness ==
    /\ IsCallback(lastCall, "NotInitialized")
    /\ ~Issued(lastCall.arg)
    /\ \E r \in RequestIds : Pending(r)

\* C31: the outcome of myCallback for an issued request depends only on the
\* request's processed flag and on the supplied cleartexts and proof, not on
\* paused, the owner or the current batch: a pending request is completed
\* by the oracle's signed cleartexts in every state, and with a fair oracle
\* every issued request is eventually processed.
C31_CallbackUnaffected ==
    /\ [](\A q \in RequestIds :
            Issued(q) =>
               \A words \in CleartextInputs(q) :
                  \A proof \in ProofInputs(q, words) :
                     CallbackError(q, words, proof) =
                        IF decryptionContexts[q].processed THEN "ReplayAttempt"
                        ELSE IF proof = Signature("kms", q, words) /\ words = OracleWords(q)
                             THEN "ok"
                        ELSE "InvalidProof")
    /\ [][ lastCall'.op = "myCallback"
           => UNCHANGED << paused, owner, currentBatchId, batchClosed, providers >> ]_vars
    /\ \A q \in RequestIds : Issued(q) ~> decryptionContexts[q].processed

\* A request issued before the contract was paused was completed while paused.
C31_Witness ==
    /\ IsCallback(lastCall, "ok")
    /\ paused
    /\ decryptionContexts[lastCall.arg].processed

\* C32: an address without an accepted submission (decryption request) has
\* the stored last time 0, and its submission (request), once it passes the
\* checks before the cooldown check, fails with CooldownActive exactly when
\* now < cooldownSeconds and passes the cooldown check otherwise.  The check
\* reads the current cooldownSeconds: for every address it passes exactly
\* when now >= last + cooldownSeconds for the value now stored, and
\* setCooldownSeconds changes no stored time.
C32_FirstCallAndCurrentCooldown ==
    /\ [](\A a \in Addresses :
            userStates[a] = EmptyUserState =>
               /\ lastSubmissionTime[a] = 0
               /\ CooldownCheck(lastSubmissionTime[a]) =
                     IF InCooldown(0) THEN "CooldownActive" ELSE "ok"
               /\ providers[a] /\ ~paused =>
                     (SubmitError(a) = "CooldownActive" <=> InCooldown(0)))
    /\ [](requestedEvents = {} =>
            \A a \in Addresses :
               /\ lastDecryptionRequestTime[a] = 0
               /\ CooldownCheck(lastDecryptionRequestTime[a]) =
                     IF InCooldown(0) THEN "CooldownActive" ELSE "ok"
               /\ \A R \in BatchIds :
                     a = owner /\ ~paused /\ batchClosed[R] =>
                        (RequestError(a, R) = "CooldownActive" <=> InCooldown(0)))
    /\ [](\A a \in Addresses :
            /\ CooldownCheck(lastSubmissionTime[a]) = "ok"
                  <=> ~InCooldown(lastSubmissionTime[a])
            /\ CooldownCheck(lastDecryptionRequestTime[a]) = "ok"
                  <=> ~InCooldown(lastDecryptionRequestTime[a]))
    /\ [][ lastCall'.op = "setCooldownSeconds" /\ lastCall'.err = "ok"
           => UNCHANGED << lastSubmissionTime, lastDecryptionRequestTime >> ]_vars

\* A provider submitted, the owner then set the cooldown to 0, and the
\* provider's next submission was accepted at the same timestamp.
C32_Witness ==
    /\ lastCall.op = "submitPortfolioData"
    /\ lastCall.err = "ok"
    /\ submitted = 2
    /\ cooldownSeconds = 0
    /\ now = 60
    /\ \A a \in Addresses \ {lastCall.caller} : userStates[a] = EmptyUserState

\* The requests issued for batch R, and the completions published for it.
RequestsFor(R) == {q \in RequestIds : Issued(q) /\ decryptionContexts[q].batchId = R}

CompletedFor(R) == {q \in RequestsFor(R) : completions[q] # <<>>}

\* C33: several requests for the same closed batch can be pending together;
\* each pending one is completed by the oracle's signed cleartexts whatever
\* the others' state, a successful callback changes the context and the
\* completions of its own request id only, each request is completed at
\* most once, and a batch never has more completions than requests.
C33_IndependentRequests ==
    /\ [](\A q \in RequestIds :
            Pending(q) =>
               CallbackError(q, OracleWords(q), Signature("kms", q, OracleWords(q))) = "ok")
    /\ [][ IsCallback(lastCall', "ok")
           => \A r \in RequestIds \ {lastCall'.arg} :
                 /\ decryptionContexts'[r] = decryptionContexts[r]
                 /\ completions'[r] = completions[r] ]_vars
    /\ [](\A R \in BatchIds :
            /\ Cardinality(CompletedFor(R)) <= Cardinality(RequestsFor(R))
            /\ Cardinality(RequestsFor(R)) =
                  Cardinality({e \in requestedEvents : e.batchId = R})
            /\ \A q \in RequestsFor(R) :
                  /\ Len(completions[q]) <= 1
                  /\ \A i \in 1..Len(completions[q]) : completions[q][i].batchId = R)
    /\ [](\A q \in RequestIds : ~Issued(q) => completions[q] = <<>>)

\* Two requests for the same batch were pending together and the later one
\* was completed first.
C33_Witness ==
    \E q, r \in RequestIds :
       /\ q < r
       /\ r \in RequestsFor(decryptionContexts[q].batchId)
       /\ Pending(q)
       /\ decryptionContexts[r].processed
       /\ IsCallback(lastCall, "ok")
       /\ lastCall.arg = r

\* C34: exactly one address passes the owner check.  A successful
\* transferOwnership changes owner and nothing else: the provider set and
\* the cooldown timestamps stay as they were.  In every state every address
\* other than the owner is refused by the owner-gated operations with
\* NotOwner and the owner is not, and the owner's decryption request for a
\* closed batch with aggregates, while not paused, is accepted exactly when
\* the cooldown counted from the owner's own last request has elapsed.
C34_SingleOwner ==
    /\ [](Cardinality({a \in Addresses : onlyOwner(a) = "ok"}) = 1)
    /\ [][ lastCall'.op = "transferOwnership" /\ lastCall'.err = "ok"
           => /\ lastCall'.caller = owner
              /\ owner' \in Addresses
              /\ UNCHANGED << providers, paused, cooldownSeconds, lastSubmissionTime,
                              lastDecryptionRequestTime, currentBatchId, batchClosed,
                              decryptionContexts, userStates, batchResults >> ]_vars
    /\ [][ owner' # owner => lastCall'.op = "transferOwnership" /\ lastCall'.err = "ok" ]_vars
    /\ [](\A a \in Addresses :
            IF a = owner
            THEN /\ onlyOwner(a) = "ok"
                 /\ OpenNewBatchError(a) # "NotOwner"
                 /\ CloseCurrentBatchError(a) # "NotOwner"
                 /\ \A R \in BatchIds : RequestError(a, R) # "NotOwner"
                 /\ ~paused => OpenNewBatchError(a) = "ok"
            ELSE /\ onlyOwner(a) = "NotOwner"
                 /\ OpenNewBatchError(a) = "NotOwner"
                 /\ CloseCurrentBatchError(a) = "NotOwner"
                 /\ \A R \in BatchIds : RequestError(a, R) = "NotOwner")
    /\ [](\A R \in BatchIds :
            ~paused /\ batchClosed[R] /\ Initialized(R) =>
               ( RequestError(owner, R) = "ok"
                    <=> CooldownCheck(lastDecryptionRequestTime[owner]) = "ok" ))
    /\ [][ lastCall'.op = "requestBatchDecryption" /\ lastCall'.err = "ok"
           => /\ lastCall'.caller = owner
              /\ \A a \in Addresses \ {owner} :
                    lastDecryptionRequestTime'[a] = lastDecryptionRequestTime[a] ]_vars

\* After the ownership moved away from the deployer, the new owner, who is
\* not a provider, requested a decryption; the deployer is still a provider
\* and the request time is stored under the new owner only.
C34_Witness ==
    /\ owner # Deployer
    /\ providers[Deployer]
    /\ ~providers[owner]
    /\ lastCall.op = "requestBatchDecryption"
    /\ lastCall.err = "ok"
    /\ lastCall.caller = owner
    /\ lastDecryptionRequestTime[owner] = now
    /\ lastDecryptionRequestTime[Deployer] < now

\* The runs that completed successfully: the key list was written (lines 212-215).
CompletedRuns == {r \in Runs : runPc[r] \in {"written", "done"}}

\* The ids listed under "portfolio_keys".
ListedIds == {ParseKeys(getData(kvKeys))[i] : i \in 1..Len(ParseKeys(getData(kvKeys)))}

\* C35: the list stored under "portfolio_keys" contains the portfolio id of
\* every submitPortfolio run that completed successfully.
C35_KeysHoldCompletedRuns ==
    \A r \in CompletedRuns : PortfolioId(r) \in ListedIds

=============================================================================
